---- MODULE Spec2Model ----
(***************************************************************************)
(* Datahive-Bot: the farm orchestration and scheduling engine.             *)
(*                                                                         *)
(*  - the per-process scheduler FarmProcessor (app/core/farm/processor.py):*)
(*    the main loop farm_continuously, the ready-set computation and the   *)
(*    device units run under a semaphore and a per-device timeout;         *)
(*  - the dispatcher MultiprocessFarmingManager (app/core/farm/manager.py):*)
(*    liveness supervision of the worker processes and stop().             *)
(*                                                                         *)
(* Time.  The clock's unit is one minute (the task-request interval) and   *)
(* its origin moves with the current time: datetime.now() is always 0 and  *)
(* a schedule mark is kept as its distance to now, 0 once it has elapsed   *)
(* (the code only ever compares a mark with the current time).  The 5      *)
(* second sleep of the main loop is below the clock's resolution, so any   *)
(* number of ticks may happen between two advances of the clock.           *)
(***************************************************************************)
EXTENDS Integers, Sequences, FiniteSets, Bags, TLC

(***************************************************************************)
(* Bounds of the model.                                                    *)
(***************************************************************************)
\* longest prepared-device list
NumSlots == 2
\* farm_settings.max_concurrent_tasks of the run (the semaphore's size)
max_concurrent_tasks == 1
\* largest initial jitter delay of the run (delay_max), in clock units
MaxDelay == 1
\* farm_settings.max_devices_per_batch of the run
max_devices_per_batch == NumSlots
\* most device units (asyncio tasks) alive at once
MaxUnits == 2
\* most worker processes the dispatcher starts
MaxProcs == 2
\* most calls of stop()
MaxStopCalls == 2

(***************************************************************************)
(* Program constants.                                                      *)
(***************************************************************************)
\* get_sleep_until(minutes=2)
PING_INTERVAL == 2
\* get_sleep_until(minutes=1)
TASK_INTERVAL == 1

\* A schedule mark is None (unset) or <<t>>, a timestamp.
None == <<>>

Min(a, b) == IF a <= b THEN a ELSE b

Max(a, b) == IF a >= b THEN a ELSE b

VARIABLES
    prepared_devices,     \* the Device objects of the process, a list
    devices_in_progress,  \* the in-flight set of device ids
    tasks,                \* the device units (asyncio tasks), a bag of records
    semaphore,            \* the value of asyncio.Semaphore(max_concurrent_tasks)
    loop_pc,              \* where farm_continuously is
    shutdown_event,       \* the process's shutdown event is set
    ended,                \* the unit that ended in the last step, and how
    processes,            \* MultiprocessFarmingManager.processes, a list
    alive,                \* per worker process: the operating system runs it
    signalled,            \* per worker process: the signals sent to it
    mgr_pc,               \* where the dispatcher is
    stop_pc,              \* where stop() is
    stop_calls,           \* how often stop() has been called
    dispatch,             \* start_multiprocess_farming: its inputs and locals
    pool,                 \* ProxyManager.proxies, and the last call to it
    classified,           \* the last error given to the failure classifier
    farm,                 \* one call of Bot.process_farm: its locals and the proxies
    reg,                  \* one call of RegistrationModule.process
    prep,                 \* one call of FarmProcessor._prepare_accounts
    boot,                 \* the Device table and the bootstraps of the accounts
    task,                 \* a FarmTask: the inputs of one call and its result
    batch_limit           \* max_devices_per_batch as farm_continuously read it from the settings

schedVars == <<prepared_devices, devices_in_progress, tasks, semaphore, loop_pc, ended>>

mgrVars == <<processes, alive, signalled, mgr_pc, stop_pc, stop_calls>>

\* the state of the parts that are modelled one at a time
extVars == <<dispatch, pool, classified, farm, reg, prep, boot, task, batch_limit>>

vars == <<prepared_devices, devices_in_progress, tasks, semaphore, loop_pc,
          shutdown_event, ended, processes, alive, signalled, mgr_pc, stop_pc,
          stop_calls, extVars>>

\* the scheduler, the shutdown event and the supervision of the workers
coreVars == <<schedVars, shutdown_event, mgrVars>>

\* no unit ended in the last step
NoEnd == <<>>

(***************************************************************************)
(* app/utils/sleep.py                                                      *)
(***************************************************************************)
\* datetime.now(pytz.UTC), the origin of the clock
now == 0

get_sleep_until(minutes) == <<now + minutes>>

verify_sleep(value) ==
    IF value = None THEN TRUE
    ELSE IF value[1] > now THEN FALSE
    ELSE TRUE

(***************************************************************************)
(* FarmProcessor._get_ready_devices                                        *)
(***************************************************************************)
\* the body of the for loop: whether the device is appended
IsReadyDevice(device) ==
    \/ device.next_ping_at = None /\ device.next_task_request_at = None
    \/ device.next_ping_at # None /\ verify_sleep(device.next_ping_at)
    \/ device.next_task_request_at # None /\ verify_sleep(device.next_task_request_at)

RECURSIVE ReadyScan(_, _, _, _)
ReadyScan(devices, i, ready_devices, limit) ==
    IF i > Len(devices) THEN ready_devices
    ELSE IF IsReadyDevice(devices[i])
         THEN ReadyScan(devices, i + 1, Append(ready_devices, i), limit)
    ELSE IF Len(ready_devices) >= limit THEN ready_devices
    ELSE ReadyScan(devices, i + 1, ready_devices, limit)

\* _get_ready_devices that returns the list it has built, without the slice
GetReadyUncut(devices, limit) ==
    LET ready_devices == ReadyScan(devices, 1, <<>>, limit)
    IN  ready_devices

\* the list of ready devices, as positions of prepared_devices
get_ready_devices(devices, limit) ==
    LET ready_devices == ReadyScan(devices, 1, <<>>, limit)
    IN  SubSeq(ready_devices, 1, Min(limit, Len(ready_devices)))

(***************************************************************************)
(* Device units.  A unit is [dev, pc, ping, task]: the position of its     *)
(* Device object in prepared_devices, where it is, whether its ping has    *)
(* been done, and whether the task request is still to be done after the   *)
(* ping (next_ping_available and next_task_request_available).             *)
(***************************************************************************)
Unit(s, pc, p, t) == [dev |-> s, pc |-> pc, ping |-> p, task |-> t]

\* the unit holds the semaphore and runs schedule_device_farming under wait_for
Executing == {"ping", "task", "cleanup"}

Units == BagToSet(tasks)

DeviceId(u) == prepared_devices[u.dev].device_id

Replace(u, v) == (tasks (-) SetToBag({u})) (+) SetToBag({v})

\* Finish without the finally clause: the id stays in the in-flight set
FinishKeepsId(u, how) ==
    /\ tasks' = tasks (-) SetToBag({u})
    /\ semaphore' = semaphore + 1
    /\ devices_in_progress' = devices_in_progress
    /\ ended' = [dev |-> u.dev, how |-> how, pc |-> u.pc, ping |-> u.ping]

\* leaving `async with semaphore`, and the finally clause
Finish(u, how) ==
    /\ tasks' = tasks (-) SetToBag({u})
    /\ semaphore' = semaphore + 1
    /\ devices_in_progress' = devices_in_progress \ {DeviceId(u)}
    /\ ended' = [dev |-> u.dev, how |-> how, pc |-> u.pc, ping |-> u.ping]

\* Start without `async with semaphore`: the unit does not wait for a permit
StartUngated(u, account_ok) ==
    /\ u.pc = "queued"
    /\ LET device == prepared_devices[u.dev]
           next_task_request_available ==
               IF device.next_task_request_at # None
               THEN verify_sleep(device.next_task_request_at) ELSE TRUE
           next_ping_available ==
               IF device.next_ping_at # None
               THEN verify_sleep(device.next_ping_at) ELSE TRUE
           finish(how) ==
               /\ tasks' = tasks (-) SetToBag({u})
               /\ devices_in_progress' = devices_in_progress \ {DeviceId(u)}
               /\ ended' = [dev |-> u.dev, how |-> how, pc |-> "start", ping |-> FALSE]
               /\ UNCHANGED semaphore
       IN  IF ~next_task_request_available /\ ~next_ping_available
           THEN finish("skipped")
           ELSE IF ~account_ok
           THEN finish("error")
           ELSE /\ tasks' = Replace(u, Unit(u.dev,
                                IF next_ping_available THEN "ping" ELSE "task",
                                FALSE, next_ping_available /\ next_task_request_available))
                /\ semaphore' = semaphore - 1
                /\ ended' = NoEnd
                /\ UNCHANGED devices_in_progress
    /\ UNCHANGED <<prepared_devices, loop_pc, shutdown_event>>

\* `async with semaphore`: the unit waits until the semaphore has a permit.
\* Then schedule_device_farming runs under wait_for up to its first remote
\* call: the account is fetched (or the fetch fails and account stays None),
\* the two availabilities are computed, and Bot(email=account.email, ...)
\* is built, which raises when account is None
Start(u, account_ok) ==
    /\ u.pc = "queued"
    /\ semaphore > 0
    /\ LET device == prepared_devices[u.dev]
           next_task_request_available ==
               IF device.next_task_request_at # None
               THEN verify_sleep(device.next_task_request_at) ELSE TRUE
           next_ping_available ==
               IF device.next_ping_at # None
               THEN verify_sleep(device.next_ping_at) ELSE TRUE
           finish(how) ==
               /\ tasks' = tasks (-) SetToBag({u})
               /\ devices_in_progress' = devices_in_progress \ {DeviceId(u)}
               /\ ended' = [dev |-> u.dev, how |-> how, pc |-> "start", ping |-> FALSE]
               /\ UNCHANGED semaphore
       IN  IF ~next_task_request_available /\ ~next_ping_available
           THEN finish("skipped")
           ELSE IF ~account_ok
           THEN finish("error")
           ELSE /\ tasks' = Replace(u, Unit(u.dev,
                                IF next_ping_available THEN "ping" ELSE "task",
                                FALSE, next_ping_available /\ next_task_request_available))
                /\ semaphore' = semaphore - 1
                /\ ended' = NoEnd
                /\ UNCHANGED devices_in_progress
    /\ UNCHANGED <<prepared_devices, loop_pc, shutdown_event>>

\* PingReturns that leaves the writing of next_ping_at for later: the unit
\* goes on to its task request with the mark as it was
PingReturnsMarkLater(u, save_ok) ==
    /\ u.pc = "ping"
    /\ UNCHANGED prepared_devices
    /\ IF save_ok
       THEN /\ tasks' = Replace(u, Unit(u.dev, IF u.task THEN "task" ELSE "cleanup",
                                        TRUE, FALSE))
            /\ ended' = NoEnd
            /\ UNCHANGED <<semaphore, devices_in_progress>>
       ELSE Finish(u, "error")
    /\ UNCHANGED <<loop_pc, shutdown_event>>

\* TaskReturns that writes both marks in its call of update_device
TaskReturnsWritesBoth(u, save_ok) ==
    /\ u.pc = "task"
    /\ prepared_devices' = [prepared_devices EXCEPT
                              ![u.dev].next_ping_at = get_sleep_until(PING_INTERVAL),
                              ![u.dev].next_task_request_at = get_sleep_until(TASK_INTERVAL)]
    /\ IF save_ok
       THEN /\ tasks' = Replace(u, Unit(u.dev, "cleanup", u.ping, FALSE))
            /\ ended' = NoEnd
            /\ UNCHANGED <<semaphore, devices_in_progress>>
       ELSE Finish(u, "error")
    /\ UNCHANGED <<loop_pc, shutdown_event>>

\* PingReturns with the interval of the task request
PingReturnsOneMinute(u, save_ok) ==
    /\ u.pc = "ping"
    /\ prepared_devices' = [prepared_devices EXCEPT
                              ![u.dev].next_ping_at = get_sleep_until(TASK_INTERVAL)]
    /\ IF save_ok
       THEN /\ tasks' = Replace(u, Unit(u.dev, IF u.task THEN "task" ELSE "cleanup",
                                        TRUE, FALSE))
            /\ ended' = NoEnd
            /\ UNCHANGED <<semaphore, devices_in_progress>>
       ELSE Finish(u, "error")
    /\ UNCHANGED <<loop_pc, shutdown_event>>

\* bot.process_farm(task='ping') returns (the exchange succeeded, or it was
\* abandoned after its attempts); update_device sets next_ping_at on the
\* object, then saves it: the save returns, or it raises and the unit ends
PingReturns(u, save_ok) ==
    /\ u.pc = "ping"
    /\ prepared_devices' = [prepared_devices EXCEPT
                              ![u.dev].next_ping_at = get_sleep_until(PING_INTERVAL)]
    /\ IF save_ok
       THEN /\ tasks' = Replace(u, Unit(u.dev, IF u.task THEN "task" ELSE "cleanup",
                                        TRUE, FALSE))
            /\ ended' = NoEnd
            /\ UNCHANGED <<semaphore, devices_in_progress>>
       ELSE Finish(u, "error")
    /\ UNCHANGED <<loop_pc, shutdown_event>>

\* bot.process_farm(task='request_task') returns; update_device sets
\* next_task_request_at on the object, then saves it
TaskReturns(u, save_ok) ==
    /\ u.pc = "task"
    /\ prepared_devices' = [prepared_devices EXCEPT
                              ![u.dev].next_task_request_at = get_sleep_until(TASK_INTERVAL)]
    /\ IF save_ok
       THEN /\ tasks' = Replace(u, Unit(u.dev, "cleanup", u.ping, FALSE))
            /\ ended' = NoEnd
            /\ UNCHANGED <<semaphore, devices_in_progress>>
       ELSE Finish(u, "error")
    /\ UNCHANGED <<loop_pc, shutdown_event>>

\* bot._cleanup() returns (it swallows its own errors) and the unit returns
CleanupReturns(u) ==
    /\ u.pc = "cleanup"
    /\ Finish(u, "returned")
    /\ UNCHANGED <<prepared_devices, loop_pc, shutdown_event>>

\* UnitRaises without `except Exception`: the exception reaches the main loop
UnitRaisesEscalates(u) ==
    /\ u.pc \in {"ping", "task"}
    /\ Finish(u, "error")
    /\ loop_pc' = "failed"
    /\ UNCHANGED <<prepared_devices, shutdown_event>>

\* bot.process_farm raises: `except Exception` of schedule_device_farming
\* logs it and the unit returns None
UnitRaises(u) ==
    /\ u.pc \in {"ping", "task"}
    /\ Finish(u, "error")
    /\ UNCHANGED <<prepared_devices, loop_pc, shutdown_event>>

\* UnitTimeout that writes the task mark as a completed task request does
UnitTimeoutWritesTaskMark(u) ==
    /\ u.pc \in Executing
    /\ Finish(u, "timeout")
    /\ prepared_devices' = [prepared_devices EXCEPT
                              ![u.dev].next_task_request_at = get_sleep_until(TASK_INTERVAL)]
    /\ UNCHANGED <<loop_pc, shutdown_event>>

\* UnitTimeout that puts the device into a cooldown
UnitTimeoutCooldown(u) ==
    /\ u.pc \in Executing
    /\ Finish(u, "timeout")
    /\ prepared_devices' = [prepared_devices EXCEPT
                              ![u.dev].next_ping_at = get_sleep_until(PING_INTERVAL),
                              ![u.dev].next_task_request_at = get_sleep_until(PING_INTERVAL)]
    /\ UNCHANGED <<loop_pc, shutdown_event>>

\* asyncio.wait_for cuts schedule_device_farming off at the await it is in;
\* the handler of asyncio.TimeoutError logs, the semaphore is left and the
\* finally clause runs
UnitTimeout(u) ==
    /\ u.pc \in Executing
    /\ Finish(u, "timeout")
    /\ UNCHANGED <<prepared_devices, loop_pc, shutdown_event>>

(***************************************************************************)
(* FarmProcessor.farm_continuously                                         *)
(***************************************************************************)
\* the bootstrap has prepared the devices; with none prepared the method
\* returns before the loop
StartLoop ==
    /\ loop_pc = "bootstrap"
    /\ loop_pc' = IF Len(prepared_devices) = 0 THEN "returned" ELSE "loop"
    /\ ended' = NoEnd
    /\ UNCHANGED <<prepared_devices, devices_in_progress, tasks, semaphore,
                   shutdown_event>>

\* the limit of the run is no smaller than the number of prepared devices, as
\* the default of 200 is for a short list
BatchIdle == batch_limit = max_devices_per_batch

\* the units one tick launches: the ready list without the in-flight ids
ToLaunch ==
    LET ready_devices == get_ready_devices(prepared_devices, batch_limit)
    IN  SelectSeq(ready_devices,
                  LAMBDA s : prepared_devices[s].device_id \notin devices_in_progress)

\* one pass of `while True`
Tick ==
    /\ loop_pc = "loop"
    /\ LET ready_devices == ToLaunch
           launched == {ready_devices[k] : k \in 1..Len(ready_devices)}
       IN  /\ BagCardinality(tasks) + Len(ready_devices) <= MaxUnits
           /\ devices_in_progress' = devices_in_progress \cup
                  {prepared_devices[s].device_id : s \in launched}
           /\ tasks' = tasks (+) SetToBag({Unit(s, "queued", FALSE, FALSE) : s \in launched})
    /\ ended' = NoEnd
    /\ UNCHANGED <<prepared_devices, semaphore, loop_pc, shutdown_event>>

\* asyncio.CancelledError reaches the loop in its sleep and the method
\* returns; asyncio.run then cancels the tasks that are left, and each runs
\* its finally clause
Cancel ==
    /\ loop_pc = "loop"
    /\ loop_pc' = "cancelled"
    /\ tasks' = EmptyBag
    /\ devices_in_progress' = {}
    /\ semaphore' = max_concurrent_tasks
    /\ ended' = NoEnd
    /\ UNCHANGED <<prepared_devices, shutdown_event>>

\* the shutdown event of the process is set
RequestShutdown ==
    /\ ~shutdown_event
    /\ shutdown_event' = TRUE
    /\ ended' = NoEnd
    /\ UNCHANGED <<prepared_devices, devices_in_progress, tasks, semaphore, loop_pc>>

\* one unit of time passes: every mark that has not elapsed comes closer
Closer(mark) == IF mark # None /\ mark[1] > 0 THEN <<mark[1] - 1>> ELSE mark

Advance ==
    /\ prepared_devices' =
         [s \in 1..Len(prepared_devices) |->
            [prepared_devices[s] EXCEPT
               !.next_ping_at = Closer(@),
               !.next_task_request_at = Closer(@)]]
    /\ ended' = NoEnd
    /\ UNCHANGED <<devices_in_progress, tasks, semaphore, loop_pc, shutdown_event>>

(***************************************************************************)
(* The state after the bootstrap.  The prepared list is the concatenation  *)
(* of the per-account query results (_prepare_devices), which nothing      *)
(* deduplicates: a device id derived from a proxy string that recurs is    *)
(* returned once for each account it was bound to.  The devices carry the  *)
(* marks set_delay_for_devices gave them (both marks the same jittered     *)
(* time) or, with the jitter switched off, the marks of a new device (both *)
(* None).  Device ids are opaque: they are numbered in order of first      *)
(* occurrence.                                                             *)
(***************************************************************************)
InitialMarks ==
    {<<None, None>>} \cup {<<(<<d>>), (<<d>>)>> : d \in 0..MaxDelay}

DeviceObjects ==
    {[device_id |-> i, next_ping_at |-> m[1], next_task_request_at |-> m[2]] :
        i \in 1..NumSlots, m \in InitialMarks}

FirstOccurrenceOrder(devices) ==
    \A i \in 1..Len(devices) :
        \A v \in 1..(devices[i].device_id - 1) :
            \E j \in 1..(i - 1) : devices[j].device_id = v

PreparedLists ==
    {devices \in UNION {[1..n -> DeviceObjects] : n \in 0..NumSlots} :
        FirstOccurrenceOrder(devices)}

\* the scheduler's part of the state in a run of the dispatcher alone
SchedIdle ==
    /\ prepared_devices = <<>>
    /\ devices_in_progress = {}
    /\ tasks = EmptyBag
    /\ semaphore = max_concurrent_tasks
    /\ loop_pc = "bootstrap"
    /\ ended = NoEnd

(***************************************************************************)
(* MultiprocessFarmingManager                                              *)
(***************************************************************************)
Workers == 1..MaxProcs

\* the dispatcher's part of the state after __init__
MgrIdle ==
    /\ processes = <<>>
    /\ alive = [p \in Workers |-> FALSE]
    /\ signalled = [p \in Workers |-> {}]
    /\ mgr_pc = "idle"
    /\ stop_pc = "none"
    /\ stop_calls = 0

Listed == {processes[k] : k \in 1..Len(processes)}

\* for proc in self.processes: if proc.is_alive(): proc.terminate()
TerminateLive ==
    signalled' = [p \in Workers |->
                    IF p \in Listed /\ alive[p]
                    THEN signalled[p] \cup {"terminate"} ELSE signalled[p]]

\* stop() up to time.sleep(0.5): nothing with an empty list, else the
\* graceful terminate of every live worker
StopBegin ==
    /\ stop_calls' = stop_calls + 1
    /\ IF Len(processes) = 0
       THEN UNCHANGED <<signalled, stop_pc>>
       ELSE TerminateLive /\ stop_pc' = "sleep"
    /\ UNCHANGED <<processes, alive>>

\* StopEnd without self.processes.clear()
StopEndKeepsList ==
    /\ stop_pc = "sleep"
    /\ signalled' = [p \in Workers |->
                       IF p \in Listed /\ alive[p]
                       THEN signalled[p] \cup {"kill"} ELSE signalled[p]]
    /\ alive' = [p \in Workers |-> IF p \in Listed THEN FALSE ELSE alive[p]]
    /\ processes' = processes
    /\ stop_pc' = "none"
    /\ UNCHANGED <<mgr_pc, stop_calls, shutdown_event>>
    /\ UNCHANGED schedVars

\* stop() after the sleep: the forced kill of every worker still alive, and
\* self.processes.clear()
StopEnd ==
    /\ stop_pc = "sleep"
    /\ signalled' = [p \in Workers |->
                       IF p \in Listed /\ alive[p]
                       THEN signalled[p] \cup {"kill"} ELSE signalled[p]]
    /\ alive' = [p \in Workers |-> IF p \in Listed THEN FALSE ELSE alive[p]]
    /\ processes' = <<>>
    /\ stop_pc' = "none"
    /\ UNCHANGED <<mgr_pc, stop_calls, shutdown_event>>
    /\ UNCHANGED schedVars

\* start_multiprocess_farming: with no account it returns; else it starts
\* process_count workers and supervises them
StartWorkers(process_count) ==
    /\ mgr_pc = "idle"
    /\ stop_pc = "none"
    /\ IF process_count = 0
       THEN /\ mgr_pc' = "done"
            /\ UNCHANGED <<processes, alive>>
       ELSE /\ processes' = [i \in 1..process_count |-> i]
            /\ alive' = [p \in Workers |-> p <= process_count]
            /\ mgr_pc' = "monitor"
    /\ UNCHANGED <<signalled, stop_pc, stop_calls, shutdown_event>>
    /\ UNCHANGED schedVars

\* a worker process ends: its loop returned, it crashed, or a signal ended it
WorkerExits(p) ==
    /\ alive[p]
    /\ alive' = [alive EXCEPT ![p] = FALSE]
    /\ UNCHANGED <<processes, signalled, mgr_pc, stop_pc, stop_calls, shutdown_event>>
    /\ UNCHANGED schedVars

\* one pass of the loop of _check_if_processes_alive
MonitorPoll ==
    /\ mgr_pc = "monitor"
    /\ stop_pc = "none"
    /\ IF shutdown_event
       THEN /\ StopBegin
            /\ mgr_pc' = "done"
       ELSE IF \A p \in Listed : alive[p]
       THEN UNCHANGED mgrVars
       ELSE /\ TerminateLive
            /\ mgr_pc' = "done"
            /\ UNCHANGED <<processes, alive, stop_pc, stop_calls>>
    /\ UNCHANGED shutdown_event
    /\ UNCHANGED schedVars

\* KeyboardInterrupt or CancelledError in the monitor's sleep: stop(), break
MonitorInterrupted ==
    /\ mgr_pc = "monitor"
    /\ stop_pc = "none"
    /\ \A p \in Listed : alive[p]
    /\ StopBegin
    /\ mgr_pc' = "done"
    /\ UNCHANGED shutdown_event
    /\ UNCHANGED schedVars

\* the owner of the dispatcher calls stop(), before a start or after the
\* supervision has ended
StopCalled ==
    /\ mgr_pc \in {"idle", "done"}
    /\ stop_pc = "none"
    /\ stop_calls < MaxStopCalls
    /\ StopBegin
    /\ UNCHANGED <<mgr_pc, shutdown_event>>
    /\ UNCHANGED schedVars

(***************************************************************************)
(* MultiprocessFarmingManager: the worker count and the partitions         *)
(***************************************************************************)
\* most proxies in the proxy file
MaxProxies == 4
\* most accounts handed to the dispatcher
MaxAccounts == 4
\* largest multiprocessing.cpu_count()
MaxCpu == 4
\* largest multiprocess_max_processes and farming_threads of the settings
MaxConfigured == 3

\* the proxy strings of the proxy file (a string may recur)
ProxyNames == {"p1", "p2"}

\* seq[start_idx:end_idx] of Python, for 0 <= start_idx <= end_idx
Slice(seq, start_idx, end_idx) ==
    SubSeq(seq, Min(start_idx, Len(seq)) + 1, Min(end_idx, Len(seq)))

\* get_optimal_process_count without the floor of one processor
ProcessCountNoFloor(cpu_count, multiprocess_max_processes, farming_threads) ==
    IF multiprocess_max_processes > 0
    THEN Min(multiprocess_max_processes, cpu_count - 1)
    ELSE Min(farming_threads, cpu_count - 1)

get_optimal_process_count(cpu_count, multiprocess_max_processes, farming_threads) ==
    IF multiprocess_max_processes > 0
    THEN Min(multiprocess_max_processes, Max(1, cpu_count - 1))
    ELSE Min(farming_threads, Max(1, cpu_count - 1))

\* current_count without the remainder's extra proxy
CurrentCountNoExtra(proxies, process_count, i) ==
    Len(proxies) \div process_count

\* current_count with the extra proxies given to the last processes
CurrentCountExtraLast(proxies, process_count, i) ==
    LET proxies_per_process == Len(proxies) \div process_count
        remainder == Len(proxies) % process_count
    IN  proxies_per_process + (IF i >= process_count - remainder THEN 1 ELSE 0)

\* current_count = proxies_per_process + (1 if i < remainder else 0)
CurrentCount(proxies, process_count, i) ==
    LET proxies_per_process == Len(proxies) \div process_count
        remainder == Len(proxies) % process_count
    IN  proxies_per_process + (IF i < remainder THEN 1 ELSE 0)

\* the for loop of distribute_proxies, from process i on
RECURSIVE DistributeLoop(_, _, _, _, _)
DistributeLoop(proxies, process_count, i, start_idx, distributed_proxies) ==
    IF i >= process_count THEN distributed_proxies
    ELSE LET end_idx == start_idx + CurrentCount(proxies, process_count, i)
         IN  DistributeLoop(proxies, process_count, i + 1, end_idx,
                            Append(distributed_proxies, Slice(proxies, start_idx, end_idx)))

\* the dict {i: partition} as a sequence: partition i is at position i + 1
distribute_proxies(proxies, process_count) ==
    IF Len(proxies) = 0
    THEN [i \in 1..process_count |-> <<>>]
    ELSE DistributeLoop(proxies, process_count, 0, 0, <<>>)

\* end_idx of process i, with no special case for the last process
AccountsEndNoRemainder(accounts, process_count, i) ==
    i * (Len(accounts) \div process_count) + (Len(accounts) \div process_count)

\* end_idx of process i in start_multiprocess_farming
AccountsEnd(accounts, process_count, i) ==
    LET accounts_per_process == Len(accounts) \div process_count
        start_idx == i * accounts_per_process
    IN  IF i < process_count - 1 THEN start_idx + accounts_per_process
        ELSE Len(accounts)

\* the inputs of a run of start_multiprocess_farming
DispatchInputs ==
    [accounts : {[k \in 1..n |-> k] : n \in 0..MaxAccounts},
     proxies : UNION {[1..m -> ProxyNames] : m \in 0..MaxProxies},
     cpu_count : 1..MaxCpu,
     multiprocess_max_processes : 0..MaxConfigured,
     farming_threads : 0..MaxConfigured]

\* the dispatcher before start_multiprocess_farming has computed anything
DispatchStart(in) ==
    [pc |-> "start", in |-> in, process_count |-> 0,
     distributed_proxies |-> <<>>, i |-> 0, started |-> <<>>]

DispatchIdle == dispatch = DispatchStart([accounts |-> <<>>, proxies |-> <<>>,
                                          cpu_count |-> 1,
                                          multiprocess_max_processes |-> 0,
                                          farming_threads |-> 0])

\* start_multiprocess_farming up to its for loop: it returns with no
\* account; accounts_per_process raises ZeroDivisionError with a process
\* count of 0; else the proxies are distributed
PlanProcesses ==
    /\ dispatch.pc = "start"
    /\ LET in == dispatch.in
           optimal_process_count ==
               get_optimal_process_count(in.cpu_count, in.multiprocess_max_processes,
                                         in.farming_threads)
           process_count == Min(optimal_process_count, Len(in.accounts))
       IN  IF Len(in.accounts) = 0
           THEN dispatch' = [dispatch EXCEPT !.pc = "returned"]
           ELSE IF process_count = 0
           THEN dispatch' = [dispatch EXCEPT !.pc = "raised"]
           ELSE dispatch' = [dispatch EXCEPT
                               !.pc = "spawn",
                               !.process_count = process_count,
                               !.distributed_proxies =
                                   distribute_proxies(in.proxies, process_count)]

\* one pass of the for loop: the partition of process i, and its start
\* unless the partition is empty; after the last pass the supervision starts
SpawnProcess ==
    /\ dispatch.pc = "spawn"
    /\ LET accounts == dispatch.in.accounts
           i == dispatch.i
           accounts_per_process == Len(accounts) \div dispatch.process_count
           start_idx == i * accounts_per_process
           end_idx == AccountsEnd(accounts, dispatch.process_count, i)
           process_accounts == Slice(accounts, start_idx, end_idx)
           process_proxies == dispatch.distributed_proxies[i + 1]
       IN  dispatch' = [dispatch EXCEPT
                          !.started = IF Len(process_accounts) = 0 THEN @
                                      ELSE Append(@, [process_id |-> i,
                                                      accounts |-> process_accounts,
                                                      proxies |-> process_proxies]),
                          !.i = i + 1,
                          !.pc = IF i + 1 = dispatch.process_count
                                 THEN "monitor" ELSE "spawn"]

(***************************************************************************)
(* ProxyManager (app/utils/proxy.py).  pool.proxies is the deque; op, arg,  *)
(* result and logged describe the last call: its name, its argument, what  *)
(* it returned and whether it logged "No available proxies".               *)
(***************************************************************************)
\* most entries of the pool, and of a list given to load_proxies
MaxPool == 3

\* Python's None where a string is expected
NoProxy == "<None>"

\* the strings a caller may pass: empty, blank, with and without padding
ProxyStrings == {"", " ", "p1", " p1", "p2"}

\* str.strip()
strip(url) ==
    IF url = " " THEN ""
    ELSE IF url = " p1" THEN "p1"
    ELSE url

\* the truth value of an Optional[str]
Truthy(proxy) == proxy # NoProxy /\ proxy # ""

\* deque.remove(value): without the first entry equal to value
RECURSIVE RemoveFirst(_, _)
RemoveFirst(proxies, proxy) ==
    IF Len(proxies) = 0 THEN <<>>
    ELSE IF Head(proxies) = proxy THEN Tail(proxies)
    ELSE <<Head(proxies)>> \o RemoveFirst(Tail(proxies), proxy)

Contains(proxies, proxy) == \E k \in 1..Len(proxies) : proxies[k] = proxy

\* ProxyManager.__init__
PoolIdle ==
    pool = [proxies |-> <<>>, op |-> "__init__", arg |-> NoProxy,
            result |-> NoProxy, logged |-> FALSE]

\* deque([url.strip() for url in proxy_urls if url.strip()])
load_proxies(proxy_urls) ==
    LET kept == SelectSeq(proxy_urls, LAMBDA url : strip(url) # "")
    IN  pool' = [proxies |-> [k \in 1..Len(kept) |-> strip(kept[k])],
                 op |-> "load_proxies", arg |-> proxy_urls,
                 result |-> NoProxy, logged |-> FALSE]

\* get_proxy whose emptiness test is missing: popleft raises IndexError
GetProxyUnchecked ==
    IF Len(pool.proxies) = 0
    THEN pool' = [proxies |-> <<>>, op |-> "get_proxy", arg |-> NoProxy,
                  result |-> "IndexError", logged |-> FALSE]
    ELSE pool' = [proxies |-> Tail(pool.proxies), op |-> "get_proxy",
                  arg |-> NoProxy, result |-> Head(pool.proxies), logged |-> FALSE]

get_proxy ==
    IF Len(pool.proxies) = 0
    THEN pool' = [proxies |-> pool.proxies, op |-> "get_proxy", arg |-> NoProxy,
                  result |-> NoProxy, logged |-> TRUE]
    ELSE pool' = [proxies |-> Tail(pool.proxies), op |-> "get_proxy",
                  arg |-> NoProxy, result |-> Head(pool.proxies), logged |-> FALSE]

\* release_proxy with appendleft in the place of append
ReleaseProxyFront(proxy) ==
    /\ Len(pool.proxies) < MaxPool
    /\ pool' = [proxies |-> IF Truthy(proxy) THEN <<proxy>> \o pool.proxies
                            ELSE pool.proxies,
                op |-> "release_proxy", arg |-> proxy,
                result |-> NoProxy, logged |-> FALSE]

release_proxy(proxy) ==
    /\ Len(pool.proxies) < MaxPool
    /\ pool' = [proxies |-> IF Truthy(proxy) THEN Append(pool.proxies, proxy)
                            ELSE pool.proxies,
                op |-> "release_proxy", arg |-> proxy,
                result |-> NoProxy, logged |-> FALSE]

remove_proxy(proxy) ==
    IF Truthy(proxy) /\ Contains(pool.proxies, proxy)
    THEN pool' = [proxies |-> RemoveFirst(pool.proxies, proxy),
                  op |-> "remove_proxy", arg |-> proxy,
                  result |-> TRUE, logged |-> FALSE]
    ELSE pool' = [proxies |-> pool.proxies, op |-> "remove_proxy", arg |-> proxy,
                  result |-> FALSE, logged |-> FALSE]

\* get_stats()["total"]
get_stats ==
    pool' = [proxies |-> pool.proxies, op |-> "get_stats", arg |-> NoProxy,
             result |-> Len(pool.proxies), logged |-> FALSE]

(***************************************************************************)
(* RegistrationModule._should_rotate_proxy_for_error.  An exception is a   *)
(* type name and a message; a message is a set of phrases, kept apart by   *)
(* other text, and a pattern occurs in the message when it occurs in one   *)
(* of its phrases after str.lower().                                       *)
(***************************************************************************)
\* most phrases in one message
MaxPhrases == 3

Phrases == {"connection refused", "Connection Refused", "email already exist",
            "already exist", "not found", "database", "timed out", "hello"}

ErrorTypes == {"Exception", "ValueError", "RequestError", "CurlError"}

\* str.lower() on a phrase
lower(phrase) ==
    IF phrase = "Connection Refused" THEN "connection refused" ELSE phrase

\* the strings that occur in a lower-case phrase (`pattern in error_msg`)
Substrings(phrase) ==
    IF phrase = "connection refused"
    THEN {"connection refused", "connection", "connect", "refused"}
    ELSE IF phrase = "email already exist"
    THEN {"email already exist", "already exist"}
    ELSE IF phrase = "hello" THEN {}
    ELSE {phrase}

\* pattern in str(error).lower()
InMessage(pattern, error) ==
    \E phrase \in error.msg : pattern \in Substrings(lower(phrase))

database_errors ==
    {"table", "column", "database", "sqlite", "no such table", "no such column",
     "schema", "migration"}

non_proxy_errors ==
    {"alias not found", "email already exist", "invalid credentials", "unauthorized",
     "forbidden", "not found", "bad request", "validation failed",
     "session is closed", "session closed", "cannot send request"}

proxy_errors ==
    {"connection", "connect", "timeout", "timed out", "network", "unreachable",
     "refused", "reset", "curl", "ssl", "tls", "tunnel", "failed to connect",
     "connection aborted", "connection reset", "connection refused",
     "could not connect", "dns", "proxy", "curl_cffi", "ctype", "cdata pointer",
     "requesterror", "curlerror"}

\* 'requesterror' in error_type or 'curlerror' in error_type
TransportType(error) == error.type \in {"RequestError", "CurlError"}

\* the classifier with the transport patterns tested first
ShouldRotateTransportFirst(error) ==
    IF TransportType(error) THEN TRUE
    ELSE IF \E pattern \in proxy_errors : InMessage(pattern, error) THEN TRUE
    ELSE FALSE

\* error is not None
should_rotate_proxy_for_error(error) ==
    IF \E pattern \in database_errors \cup non_proxy_errors : InMessage(pattern, error)
    THEN FALSE
    ELSE IF TransportType(error) THEN TRUE
    ELSE IF \E pattern \in proxy_errors : InMessage(pattern, error) THEN TRUE
    ELSE FALSE

Errors ==
    [type : ErrorTypes,
     msg : {m \in SUBSET Phrases : Cardinality(m) <= MaxPhrases}]

ClassifierIdle == classified = [pc |-> "none"]

\* the classifier is called with an exception
Classify(error) ==
    classified' = [pc |-> "done", error |-> error,
                   result |-> should_rotate_proxy_for_error(error)]

(***************************************************************************)
(* Bot.process_farm (app/core/base/base.py): the attempts of one farming   *)
(* operation on a device, with the proxy pool of the process.  farm.proxy  *)
(* is Bot.proxy, farm.device_proxy is device.active_device_proxy and       *)
(* farm.account_proxy is account.active_account_proxy.                     *)
(***************************************************************************)
\* largest max_farm_attempts and max_registration_attempts of the settings
MaxAttempts == 3

\* the outcomes of the remote call of one attempt: it returns, it raises
\* APIError, it raises another exception (a connection error, say), it
\* raises an exception whose message has 'Proxy Authentication Required',
\* it raises an exception that is not an APIError and whose message tells of
\* invalid credentials or an unauthorized access
CallOutcomes == {"ok", "api_error", "exception", "proxy_auth", "unauthorized"}

FarmIdle == farm = [pc |-> "none"]

\* the operation before its first attempt
FarmStart(enabled, max_attempts, device_proxy, account_proxy) ==
    [pc |-> IF max_attempts = 0 THEN "returned" ELSE "attempt",
     proxy_rotation_enabled |-> enabled, max_farm_attempts |-> max_attempts,
     attempt |-> 0, attempts_made |-> 0, rotations |-> 0, outcome |-> "none",
     proxy |-> NoProxy, device_proxy |-> device_proxy, account_proxy |-> account_proxy,
     cleaned |-> FALSE]

\* is_last_attempt that never holds
NeverLastAttempt(attempt, max_attempts) == FALSE

\* is_last_attempt = attempt == max_attempts - 1
is_last_attempt(attempt, max_attempts) == attempt = max_attempts - 1

\* the test of the rotation switch, with the switch ignored
RotationSwitchIgnored == FALSE

\* not self.settings.proxy_rotation_enabled
RotationDisabled == ~farm.proxy_rotation_enabled

\* the pool after get_proxy, as get_proxy leaves it
PoolAfterGet ==
    IF Len(pool.proxies) = 0
    THEN [proxies |-> pool.proxies, op |-> "get_proxy", arg |-> NoProxy,
          result |-> NoProxy, logged |-> TRUE]
    ELSE [proxies |-> Tail(pool.proxies), op |-> "get_proxy", arg |-> NoProxy,
          result |-> Head(pool.proxies), logged |-> FALSE]

\* the handlers of process_farm after an attempt with the given outcome
AfterAttempt(outcome) ==
    IF outcome \in {"ok", "api_error"} THEN "returned"
    ELSE IF outcome = "proxy_auth" /\ RotationDisabled THEN "returned"
    ELSE IF is_last_attempt(farm.attempt, farm.max_farm_attempts) THEN "returned"
    ELSE "update_proxy"

\* one pass of the for loop up to the handlers: _prepare_account_proxy takes
\* the device's proxy, else the account's, else one from the pool (and
\* raises with none left); then the remote call is made
FarmAttempt(call) ==
    /\ farm.pc = "attempt"
    /\ LET from_account == ~Truthy(farm.device_proxy) /\ Truthy(farm.account_proxy)
           from_pool == ~Truthy(farm.device_proxy) /\ ~Truthy(farm.account_proxy)
           got == PoolAfterGet
           outcome == IF from_pool /\ ~Truthy(got.result) THEN "exception" ELSE call
       IN  /\ pool' = IF from_pool THEN got ELSE pool
           /\ farm' = [farm EXCEPT
                         !.attempts_made = @ + 1,
                         !.outcome = outcome,
                         !.device_proxy = IF from_account THEN farm.account_proxy
                                          ELSE IF from_pool /\ Truthy(got.result)
                                          THEN got.result ELSE @,
                         !.account_proxy = IF from_pool /\ Truthy(got.result)
                                           THEN got.result ELSE @,
                         !.proxy = IF from_pool /\ Truthy(got.result)
                                   THEN got.result ELSE @,
                         !.pc = AfterAttempt(outcome)]

\* _update_account_proxy and `continue`: with the rotation switched off the
\* retry delay only; else _rotate_proxy (a proxy from the pool, the old one
\* of the Bot released, the new one saved on the account, which may raise)
\* and the Bot's proxy saved on the device
UpdateAccountProxy(db_ok) ==
    /\ farm.pc = "update_proxy"
    /\ LET next == [farm EXCEPT
                      !.attempt = @ + 1,
                      !.pc = IF farm.attempt + 1 < farm.max_farm_attempts
                             THEN "attempt" ELSE "returned"]
           got == PoolAfterGet
           new_proxy == got.result
           released == IF Truthy(farm.proxy)
                       THEN [proxies |-> Append(got.proxies, farm.proxy),
                             op |-> "release_proxy", arg |-> farm.proxy,
                             result |-> NoProxy, logged |-> FALSE]
                       ELSE got
           rotated == IF Truthy(new_proxy) THEN new_proxy ELSE farm.proxy
       IN  IF RotationDisabled
           THEN /\ farm' = next
                /\ UNCHANGED pool
           ELSE /\ pool' = released
                /\ IF Truthy(new_proxy) /\ ~db_ok
                   THEN farm' = [farm EXCEPT !.pc = "raised", !.proxy = new_proxy,
                                             !.rotations = @ + 1]
                   ELSE farm' = [next EXCEPT
                                   !.rotations = @ + 1,
                                   !.proxy = rotated,
                                   !.account_proxy = IF Truthy(new_proxy)
                                                     THEN new_proxy ELSE @,
                                   !.device_proxy = IF Truthy(rotated)
                                                    THEN rotated ELSE @]

\* bot._cleanup() of the unit after process_farm has returned: the Bot's
\* proxy, if it has one, is released into the pool
Cleanup ==
    /\ farm.pc = "returned"
    /\ ~farm.cleaned
    /\ pool' = IF Truthy(farm.proxy)
               THEN [proxies |-> Append(pool.proxies, farm.proxy),
                     op |-> "release_proxy", arg |-> farm.proxy,
                     result |-> NoProxy, logged |-> FALSE]
               ELSE pool
    /\ farm' = [farm EXCEPT !.cleaned = TRUE]

(***************************************************************************)
(* RegistrationModule.process (app/core/modules/registration.py): the      *)
(* attempts of one registration.  reg.proxy is Bot.proxy.                  *)
(***************************************************************************)
\* what one pass of the loop of process can meet: the account is already
\* registered; _attempt_registration returns True; inside it an APIError is
\* raised, the email validation fails, or another exception is raised; an
\* exception is raised in process itself, outside _attempt_registration,
\* with or without the curl_cffi text in its message
PassOutcomes ==
    {"registered", "success", "api_error", "validation_failed",
     "exception_inside", "escaped", "curl_cffi"}

RegIdle == reg = [pc |-> "none"]

\* the registration before its first pass
RegStart(enabled, max_attempts, proxy) ==
    [pc |-> IF max_attempts = 0 THEN "failed" ELSE "attempt",
     proxy_rotation_enabled |-> enabled, max_registration_attempts |-> max_attempts,
     attempt |-> 0, attempts_made |-> 0, rotations |-> 0, outcome |-> "none",
     should_rotate_proxy |-> TRUE, proxy |-> proxy]

\* the end of a pass of `for attempt in range(max_attempts)` that neither
\* returned nor raised: the next pass, or the statements after the loop
NextPass(r) ==
    [r EXCEPT !.attempt = @ + 1,
              !.pc = IF r.attempt + 1 < r.max_registration_attempts
                     THEN "attempt" ELSE "failed"]

\* _attempt_registration: True when it completes; False when the validation
\* fails and when an APIError or another exception is raised in it, both of
\* which its own handlers catch
AttemptRegistration(outcome) ==
    IF outcome = "success" THEN "True" ELSE "False"

\* one pass of the loop of process up to its handlers
RegAttempt(outcome, should_rotate) ==
    /\ reg.pc = "attempt"
    /\ LET called == outcome \in {"success", "api_error", "validation_failed",
                                  "exception_inside"}
           result == IF called THEN AttemptRegistration(outcome) ELSE "none"
           r == [reg EXCEPT !.outcome = outcome,
                            !.attempts_made = IF called THEN @ + 1 ELSE @,
                            !.should_rotate_proxy = should_rotate]
           last == reg.attempt = reg.max_registration_attempts - 1
       IN  reg' = IF outcome = "registered" \/ result = "True"
                  THEN [r EXCEPT !.pc = "succeeded"]
                  ELSE IF result = "False"
                  THEN NextPass(r)
                  ELSE IF last
                  THEN [r EXCEPT !.pc = "failed"]
                  ELSE IF outcome = "curl_cffi"
                  THEN [r EXCEPT !.pc = "curl_cffi"]
                  ELSE [r EXCEPT !.pc = "update_proxy"]
    /\ UNCHANGED pool

\* the pool after release_proxy(proxy) on the given pool
PoolAfterRelease(p, proxy) ==
    [proxies |-> Append(p.proxies, proxy), op |-> "release_proxy", arg |-> proxy,
     result |-> NoProxy, logged |-> FALSE]

\* _update_proxy_and_retry and the next pass: with the rotation switched off
\* the delay only; else, for an error that calls for it, the Bot's proxy is
\* released and one is taken from the pool
UpdateProxyAndRetry ==
    /\ reg.pc = "update_proxy"
    /\ IF ~reg.proxy_rotation_enabled \/ ~reg.should_rotate_proxy
       THEN /\ reg' = NextPass(reg)
            /\ UNCHANGED pool
       ELSE LET released == IF Truthy(reg.proxy)
                            THEN PoolAfterRelease(pool, reg.proxy) ELSE pool
                new_proxy == IF Len(released.proxies) = 0 THEN NoProxy
                             ELSE Head(released.proxies)
            IN  /\ pool' = [proxies |-> IF Len(released.proxies) = 0 THEN <<>>
                                        ELSE Tail(released.proxies),
                            op |-> "get_proxy", arg |-> NoProxy,
                            result |-> new_proxy,
                            logged |-> Len(released.proxies) = 0]
                /\ reg' = [NextPass(reg) EXCEPT
                             !.rotations = @ + 1,
                             !.proxy = IF Truthy(new_proxy) THEN new_proxy ELSE @]

\* _handle_curl_cffi_error and `continue`: False when the Bot stops during
\* one of its two waits; between them _rotate_proxy, unless the rotation is
\* switched off
HandleCurlCffiError(stopped) ==
    /\ reg.pc = "curl_cffi"
    /\ IF stopped = "first"
       THEN /\ reg' = [reg EXCEPT !.pc = "failed"]
            /\ UNCHANGED pool
       ELSE LET got == PoolAfterGet
                rotated == [reg EXCEPT
                              !.rotations = @ + 1,
                              !.proxy = IF Truthy(got.result) THEN got.result ELSE @]
                r == IF reg.proxy_rotation_enabled THEN rotated ELSE reg
            IN  /\ pool' = IF ~reg.proxy_rotation_enabled THEN pool
                           ELSE IF Truthy(reg.proxy)
                           THEN PoolAfterRelease(got, reg.proxy) ELSE got
                /\ reg' = IF stopped = "second" THEN [r EXCEPT !.pc = "failed"]
                          ELSE NextPass(r)

(***************************************************************************)
(* FarmProcessor._prepare_accounts (app/core/farm/processor.py): bootstrap *)
(* step 1.  prep.table is the Account table, an email's row being absent,  *)
(* without auth_token or with one; prep.prepared_accounts is the list of   *)
(* rows, each named by its email; prep.index is the position of the list   *)
(* iterator of the for statement.                                          *)
(***************************************************************************)
\* number of emails of the farming file
MaxEmails == 4

Emails == 1..MaxEmails

PrepIdle == prep = [pc |-> "none"]

\* the call before get_accounts
PrepStart(accounts, table) ==
    [pc |-> "get_accounts", accounts |-> accounts, table |-> table,
     prepared_accounts |-> <<>>, index |-> 0]

\* the rows of the emails of a chunk, in the order of the table
RECURSIVE Rows(_, _, _)
Rows(table, chunk, email) ==
    IF email > MaxEmails THEN <<>>
    ELSE (IF email \in chunk /\ table[email] # "absent" THEN <<email>> ELSE <<>>)
         \o Rows(table, chunk, email + 1)

\* get_accounts: the rows of the table whose email is in the given accounts
get_accounts ==
    /\ prep.pc = "get_accounts"
    /\ prep' = [prep EXCEPT !.prepared_accounts = Rows(prep.table, prep.accounts, 1),
                            !.pc = "for"]

\* list.remove: the list without its first entry equal to the given one
remove(list, account) == RemoveFirst(list, account)

\* one pass of `for account in prepared_accounts`: the iterator yields the
\* entry at its position and moves on by one; an account without auth_token
\* is removed from the very list the iterator walks
PrepareLoop ==
    /\ prep.pc = "for"
    /\ prep.index < Len(prep.prepared_accounts)
    /\ LET account == prep.prepared_accounts[prep.index + 1]
       IN  prep' = [prep EXCEPT
                      !.index = @ + 1,
                      !.prepared_accounts =
                          IF prep.table[account] = "no_token"
                          THEN remove(@, account) ELSE @]

\* the iterator is exhausted: _prepare_accounts returns the list
PrepareReturn ==
    /\ prep.pc = "for"
    /\ prep.index >= Len(prep.prepared_accounts)
    /\ prep' = [prep EXCEPT !.pc = "returned"]

(***************************************************************************)
(* FarmProcessor._create_devices_for_account (app/core/farm/processor.py)  *)
(* and Device.create_device_for_account (app/database/models/devices.py).  *)
(* boot.devices is the table `devices`, its rows in the order of their     *)
(* creation; boot.acct[a] holds the locals of the bootstrap of account a.  *)
(* The bootstraps of the accounts of a process run under asyncio.gather,   *)
(* so they interleave at every await.                                      *)
(***************************************************************************)
\* largest active_devices_per_account
MaxTarget == 2

\* the accounts of the process
BootAccounts == {1, 2}

BootIdle == boot = [pc |-> "none"]

\* str(uuid.uuid3(uuid.NAMESPACE_DNS, proxy)): a name-based identifier, the
\* same for the same proxy string and different for different ones
uuid3(proxy) == <<"uuid3", proxy>>

\* the rows of the table with the given device_id
RowsWithId(devices, device_id) ==
    {i \in 1..Len(devices) : devices[i].device_id = device_id}

\* Device.get_devices_with_limit: the rows of the account, at most limit
get_devices_with_limit(devices, account, limit) ==
    LET rows == {i \in 1..Len(devices) : devices[i].account = account}
    IN  Min(limit, Cardinality(rows))

\* the locals of a bootstrap before its first statement
BootStart(limit) ==
    [pc |-> "nodes", limit |-> limit, nodes |-> 0, nodes_to_create |-> 0,
     calls |-> 0, proxies |-> <<>>, k |-> 0, device |-> FALSE, created |-> 0,
     result |-> <<>>]

\* nodes = get_devices_with_limit(account, limit), and the test on it
BootNodes(a) ==
    /\ boot.pc = "run"
    /\ boot.acct[a].pc = "nodes"
    /\ LET nodes == get_devices_with_limit(boot.devices, a, boot.acct[a].limit)
       IN  boot' = [boot EXCEPT
                      !.acct[a].nodes = nodes,
                      !.acct[a].nodes_to_create = Max(boot.acct[a].limit - nodes, 0),
                      !.acct[a].pc = IF nodes < boot.acct[a].limit
                                     THEN "_get_proxies" ELSE "done"]
    /\ UNCHANGED pool

\* one pass of the loop of _get_proxies: a proxy is appended if the pool
\* gave one; after the last pass nodes_to_create is cut to len(proxies)
BootGetProxy(a) ==
    /\ boot.pc = "run"
    /\ boot.acct[a].pc = "_get_proxies"
    /\ LET got == PoolAfterGet
           proxies == IF Truthy(got.result)
                      THEN Append(boot.acct[a].proxies, got.result)
                      ELSE boot.acct[a].proxies
           last == boot.acct[a].calls + 1 = boot.acct[a].nodes_to_create
       IN  /\ pool' = got
           /\ boot' = [boot EXCEPT
                         !.acct[a].calls = @ + 1,
                         !.acct[a].proxies = proxies,
                         !.acct[a].nodes_to_create =
                             IF last THEN Min(@, Len(proxies)) ELSE @,
                         !.acct[a].pc = IF ~last THEN "_get_proxies"
                                        ELSE IF Len(proxies) > 0 THEN "get_or_none"
                                        ELSE "done",
                         !.acct[a].k = IF last THEN 1 ELSE @]

\* device = await cls.get_or_none(device_id = device_id)
BootGetOrNone(a) ==
    /\ boot.pc = "run"
    /\ boot.acct[a].pc = "get_or_none"
    /\ LET device_id == uuid3(boot.acct[a].proxies[boot.acct[a].k])
       IN  boot' = [boot EXCEPT
                      !.acct[a].device = RowsWithId(boot.devices, device_id) # {},
                      !.acct[a].pc = "write"]
    /\ UNCHANGED pool

\* cls.create with the unique index of device_id left out
CreateUnchecked(devices, device_id, account) ==
    [raised |-> FALSE,
     devices |-> Append(devices, [device_id |-> device_id, account |-> account,
                                  next_ping_at |-> None,
                                  next_task_request_at |-> None])]

\* cls.create: a new row, or IntegrityError when a row with the device_id
\* exists (device_id is declared unique=True)
Create(devices, device_id, account) ==
    IF RowsWithId(devices, device_id) # {}
    THEN [raised |-> TRUE, devices |-> devices]
    ELSE [raised |-> FALSE,
          devices |-> Append(devices, [device_id |-> device_id, account |-> account,
                                  next_ping_at |-> None,
                                  next_task_request_at |-> None])]

\* the rest of create_device_for_account and of the pass of the zip loop:
\* with no device found the row is created, an exception being logged and
\* skipped; a device found is given the account and saved
BootWrite(a) ==
    /\ boot.pc = "run"
    /\ boot.acct[a].pc = "write"
    /\ LET device_id == uuid3(boot.acct[a].proxies[boot.acct[a].k])
           made == Create(boot.devices, device_id, a)
           saved == [i \in 1..Len(boot.devices) |->
                        IF boot.devices[i].device_id = device_id
                        THEN [boot.devices[i] EXCEPT !.account = a]
                        ELSE boot.devices[i]]
           more == boot.acct[a].k < boot.acct[a].nodes_to_create
       IN  boot' = [boot EXCEPT
                      !.devices = IF boot.acct[a].device THEN saved ELSE made.devices,
                      !.acct[a].created =
                          IF ~boot.acct[a].device /\ ~made.raised THEN @ + 1 ELSE @,
                      !.acct[a].k = @ + 1,
                      !.acct[a].pc = IF more THEN "get_or_none" ELSE "done"]
    /\ UNCHANGED pool

\* nodes = await Device.get_devices_with_limit(account, limit); return nodes:
\* the rows of the account as they are then, at most limit of them
BootReturn(a) ==
    /\ boot.pc = "run"
    /\ boot.acct[a].pc = "done"
    /\ LET rows == SelectSeq(boot.devices, LAMBDA d : d.account = a)
       IN  boot' = [boot EXCEPT
                      !.acct[a].result =
                          SubSeq(rows, 1, Min(boot.acct[a].limit, Len(rows))),
                      !.acct[a].pc = "returned"]
    /\ UNCHANGED pool

\* set_delay_for_devices that sets next_ping_at only
SetDelayPingOnly(devices, delay) ==
    [k \in 1..Len(devices) |->
        [devices[k] EXCEPT !.next_ping_at = get_sleep_until(delay[k])]]

\* the for loop of set_delay_for_devices: device k is given the delay drawn
\* for it in both marks
set_delay_for_devices(devices, delay) ==
    [k \in 1..Len(devices) |->
        [devices[k] EXCEPT !.next_ping_at = get_sleep_until(delay[k]),
                           !.next_task_request_at = get_sleep_until(delay[k])]]

\* _prepare_devices after asyncio.gather: the results of the accounts are
\* put one after the other; set_delay_for_devices returns at once for
\* delay_max <= 0 or delay_min < 0, random.randint raises for an empty
\* range, else every device gets its delay
PrepareDevices ==
    /\ boot.pc = "run"
    /\ \A a \in BootAccounts : boot.acct[a].pc = "returned"
    /\ LET filtered_results == boot.acct[1].result \o boot.acct[2].result
       IN  IF Len(filtered_results) = 0 \/ boot.delay_max <= 0 \/ boot.delay_min < 0
           THEN boot' = [boot EXCEPT !.pc = "prepared", !.prepared = filtered_results]
           ELSE IF boot.delay_min > boot.delay_max
           THEN boot' = [boot EXCEPT !.pc = "raised"]
           ELSE \E delay \in [1..Len(filtered_results) ->
                                  boot.delay_min..boot.delay_max] :
                    boot' = [boot EXCEPT
                               !.pc = "prepared",
                               !.prepared = set_delay_for_devices(filtered_results, delay)]
    /\ UNCHANGED pool

(***************************************************************************)
(* FarmTask (app/core/farm/task.py).  A Python str is the sequence of its  *)
(* characters.  A Python value is a record [t, v]: t is "none", "str",     *)
(* "list" (v a sequence of values), "dict" (v a function from strs to      *)
(* values), "type" (the class of a value) or "raised" (an exception, v its *)
(* name).                                                                  *)
(***************************************************************************)
TaskIdle == task = [op |-> "none"]

PyStr(s) == [t |-> "str", v |-> s]

Raised(e) == [t |-> "raised", v |-> e]

\* the character class of PLACEHOLDER_RE without the brackets
PathCharsNoBrackets ==
    {"a", "b", "c", "d", "e", "f", "g", "h", "i", "j", "k", "l",
     "m", "n", "o", "p", "q", "r", "s", "t", "u", "v", "w", "x",
     "y", "z", "_", "0", "1", "2", "3", "4", "5", "6", "7", "8",
     "9"}
        \cup {".", "'", "\"", "-"}

\* [\w\[\].'"-], the characters of a placeholder's path (of \w the lower
\* case letters, the digits and the underscore)
PathChars ==
    {"a", "b", "c", "d", "e", "f", "g", "h", "i", "j", "k", "l",
     "m", "n", "o", "p", "q", "r", "s", "t", "u", "v", "w", "x",
     "y", "z", "_", "0", "1", "2", "3", "4", "5", "6", "7", "8",
     "9"}
        \cup {"[", "]", ".", "'", "\"", "-"}

\* PLACEHOLDER_RE matched at position i of s: the position after the match,
\* or 0 for no match
PLACEHOLDER_RE(s, i) ==
    LET RECURSIVE run(_)
        run(j) == IF j <= Len(s) /\ s[j] \in PathChars THEN run(j + 1) ELSE j
        j == run(i + 2)
    IN  IF /\ i + 1 <= Len(s) /\ s[i] = "{" /\ s[i + 1] = "{"
           /\ j > i + 2
           /\ j + 1 <= Len(s) /\ s[j] = "}" /\ s[j + 1] = "}"
        THEN j + 2 ELSE 0

\* get_from_context: the value at the path, or the exception it raises
get_from_context(context, path) ==
    LET \* s.split(sep) and s.split(sep, 1)
        RECURSIVE split(_, _, _)
        split(s, sep, once) ==
            LET at == {i \in 1..Len(s) : s[i] = sep}
                i == CHOOSE x \in at : \A y \in at : x <= y
            IN  IF at = {} THEN <<s>>
                ELSE IF once THEN <<SubSeq(s, 1, i - 1), SubSeq(s, i + 1, Len(s))>>
                ELSE <<SubSeq(s, 1, i - 1)>>
                     \o split(SubSeq(s, i + 1, Len(s)), sep, once)
        \* int(idx_str): the number, or ValueError
        int(idx_str) ==
            LET Digits == <<"0", "1", "2", "3", "4", "5", "6", "7", "8", "9">>
                digit(c) == (CHOOSE d \in 1..10 : Digits[d] = c) - 1
                isdigit(c) == \E d \in 1..10 : Digits[d] = c
                RECURSIVE number(_)
                number(s) ==
                    IF s = <<>> THEN 0
                    ELSE 10 * number(SubSeq(s, 1, Len(s) - 1)) + digit(s[Len(s)])
                negative == Len(idx_str) > 0 /\ idx_str[1] = "-"
                digits == IF negative THEN Tail(idx_str) ELSE idx_str
            IN  IF digits = <<>> \/ \E k \in 1..Len(digits) : ~isdigit(digits[k])
                THEN Raised("ValueError")
                ELSE [t |-> "int",
                      v |-> IF negative THEN 0 - number(digits) ELSE number(digits)]
        \* cur[idx]
        subscript(cur, idx) ==
            IF cur.t = "dict" THEN Raised("KeyError")
            ELSE IF cur.t = "none" THEN Raised("TypeError")
            ELSE LET n == Len(cur.v)
                     k == IF idx < 0 THEN idx + n + 1 ELSE idx + 1
                 IN  IF k < 1 \/ k > n THEN Raised("IndexError")
                     ELSE IF cur.t = "str" THEN PyStr(<<cur.v[k]>>) ELSE cur.v[k]
        \* cur.get(name, default) of a dict
        get(cur, name, default) ==
            IF name \in DOMAIN cur.v THEN cur.v[name] ELSE default
        \* getattr(cur, name, None) of a value that is no dict
        getattr(cur, name) ==
            IF name = <<"_", "_", "c", "l", "a", "s", "s", "_", "_">>
            THEN [t |-> "type", v |-> cur.t] ELSE [t |-> "none", v |-> <<>>]
        parts == split(path, ".", FALSE)
        RECURSIVE walk(_, _)
        walk(cur, k) ==
            IF k > Len(parts) \/ cur.t = "raised" THEN cur
            ELSE LET part == parts[k]
                 IN  IF /\ \E i \in 1..Len(part) : part[i] = "["
                        /\ part[Len(part)] = "]"
                     THEN LET pair == split(SubSeq(part, 1, Len(part) - 1), "[", TRUE)
                              idx == int(pair[2])
                          IN  IF cur.t # "dict" THEN Raised("AttributeError")
                              ELSE IF idx.t = "raised" THEN idx
                              ELSE walk(subscript(get(cur, pair[1],
                                                      [t |-> "dict", v |-> <<>>]),
                                                  idx.v), k + 1)
                     ELSE IF cur.t = "dict"
                     THEN walk(get(cur, part, [t |-> "none", v |-> <<>>]), k + 1)
                     ELSE walk(getattr(cur, part), k + 1)
    IN  walk(context, 1)

\* str(value)
RECURSIVE str(_)
str(value) ==
    LET quoted(s) == <<"'">> \o s \o <<"'">>
        RECURSIVE items(_, _)
        items(list, k) ==
            IF k > Len(list) THEN <<>>
            ELSE (IF k > 1 THEN <<",", " ">> ELSE <<>>)
                 \o (IF list[k].t = "str" THEN quoted(list[k].v) ELSE str(list[k]))
                 \o items(list, k + 1)
        RECURSIVE entries(_, _)
        entries(dict, keys) ==
            IF keys = {} THEN <<>>
            ELSE LET key == CHOOSE x \in keys : TRUE
                 IN  quoted(key) \o <<":", " ">>
                     \o (IF dict[key].t = "str" THEN quoted(dict[key].v)
                         ELSE str(dict[key]))
                     \o (IF keys = {key} THEN <<>> ELSE <<",", " ">>)
                     \o entries(dict, keys \ {key})
    IN  CASE value.t = "str" -> value.v
          [] value.t = "none" -> <<"N", "o", "n", "e">>
          [] value.t = "list" -> <<"[">> \o items(value.v, 1) \o <<"]">>
          [] value.t = "dict" -> <<"{">> \o entries(value.v, DOMAIN value.v) \o <<"}">>
          [] value.t = "type" -> <<"<", "c", "l", "a", "s", "s", ">">>

\* resolve_placeholders on a str: the str with every match of PLACEHOLDER_RE
\* replaced, or the exception get_from_context raises
resolve_placeholders(obj, context) ==
    LET replace(path) ==
            LET value == get_from_context(context, path)
            IN  IF value.t = "raised" THEN value
                ELSE IF value.t # "none" THEN PyStr(str(value)) ELSE PyStr(<<>>)
        RECURSIVE sub(_, _)
        sub(i, out) ==
            IF i > Len(obj) THEN PyStr(out)
            ELSE LET j == PLACEHOLDER_RE(obj, i)
                 IN  IF j = 0 THEN sub(i + 1, Append(out, obj[i]))
                     ELSE LET r == replace(SubSeq(obj, i + 2, j - 3))
                          IN  IF r.t = "raised" THEN r ELSE sub(j, out \o r.v)
    IN  sub(1, <<>>)

\* the contexts of the placeholders: {vars: {url: "http://x"}, steps: {}},
\* and one with a list among the vars and the output of a step
Contexts ==
    LET dict(f) == [t |-> "dict", v |-> f]
        list(l) == [t |-> "list", v |-> l]
        url == PyStr(<<"h", "t", "t", "p", ":", "/", "/", "x">>)
    IN  {dict(<<"v", "a", "r", "s">> :> dict(<<"u", "r", "l">> :> url) @@ <<"s", "t", "e", "p", "s">> :> dict(<<>>)),
         dict(<<"v", "a", "r", "s">> :> dict(<<"u", "r", "l">> :> url
                                @@ <<"l", "s">> :> list(<<PyStr(<<"a">>), PyStr(<<"b">>)>>))
              @@ <<"s", "t", "e", "p", "s">> :> dict(<<"p", "a", "g", "e">> :> dict(<<"u", "r", "l">> :> PyStr(<<"y">>))))}

\* largest number of pieces of a template
MaxPieces == 2

\* the templates of the placeholders, each with the pieces it is made of:
\* texts, and placeholders for paths; a path is given by its segments, each
\* a name and an index (-1 for none)
Templates ==
    LET seg(name, idx) == [name |-> name, idx |-> idx]
        paths ==
            {<<seg(<<"v", "a", "r", "s">>, -1), seg(<<"u", "r", "l">>, -1)>>,
                 <<seg(<<"v", "a", "r", "s">>, -1), seg(<<"l", "s">>, 0)>>,
                 <<seg(<<"v", "a", "r", "s">>, -1), seg(<<"l", "s">>, 1)>>,
                 <<seg(<<"v", "a", "r", "s">>, -1), seg(<<"l", "s">>, 5)>>,
                 <<seg(<<"v", "a", "r", "s">>, -1), seg(<<"l", "s">>, -1)>>,
                 <<seg(<<"v", "a", "r", "s">>, -1), seg(<<"x">>, -1)>>,
                 <<seg(<<"v", "a", "r", "s">>, -1), seg(<<"x">>, 0)>>,
                 <<seg(<<"x">>, -1)>>,
                 <<seg(<<"x">>, -1), seg(<<"u", "r", "l">>, -1)>>,
                 <<seg(<<"v", "a", "r", "s">>, -1), seg(<<"u", "r", "l">>, -1), seg(<<"x">>, -1)>>,
                 <<seg(<<"v", "a", "r", "s">>, -1), seg(<<"u", "r", "l">>, -1), seg(<<"_", "_", "c", "l", "a", "s", "s", "_", "_">>, -1)>>,
                 <<seg(<<"s", "t", "e", "p", "s">>, -1), seg(<<"p", "a", "g", "e">>, -1), seg(<<"u", "r", "l">>, -1)>>}
        pieces ==
            {[kind |-> "text", s |-> s, path |-> <<>>] :
                 s \in {<<"g", "o", " ", "t", "o", " ">>, <<"{">>, <<"{", "{", " ", "x", "}", "}">>}}
            \cup {[kind |-> "placeholder", s |-> <<>>, path |-> path] : path \in paths}
        RECURSIVE dotted(_)
        dotted(path) ==
            IF path = <<>> THEN <<>>
            ELSE path[1].name
                 \o (IF path[1].idx < 0 THEN <<>>
                     ELSE <<"[", (<<"0", "1", "2", "3", "4", "5">>)[path[1].idx + 1], "]">>)
                 \o (IF Len(path) > 1 THEN <<".">> ELSE <<>>)
                 \o dotted(Tail(path))
        RECURSIVE template(_)
        template(ps) ==
            IF ps = <<>> THEN <<>>
            ELSE (IF ps[1].kind = "text" THEN ps[1].s
                  ELSE <<"{", "{">> \o dotted(ps[1].path) \o <<"}", "}">>)
                 \o template(Tail(ps))
    IN  {[pieces |-> ps, obj |-> template(ps)] :
             ps \in UNION {[1..n -> pieces] : n \in 0..MaxPieces}}

\* resolve_placeholders is called on the template
ResolvePlaceholders ==
    /\ task.op = "resolve"
    /\ task.result.t = "pending"
    /\ task' = [task EXCEPT !.result = resolve_placeholders(task.obj, task.context)]

\* largest number of nodes an OBJECTS field selects
MaxItems == 3

\* the records extract_field builds for the nodes of an OBJECTS field.  A
\* dict is the sequence of its items in insertion order, each a pair of a
\* key and a value; the field names are numbered in their sorting order.
\* Every record has a text field 1 and an OBJECT field 2 with a text field
\* 3, inserted in either order
ObjectRecords ==
    LET text == {PyStr(<<"x">>), PyStr(<<"y">>)}
        dict(items) == [t |-> "dict", v |-> items]
    IN  {dict(<<(<<1, a>>), (<<2, dict(<<(<<3, b>>)>>)>>)>>) : a \in text, b \in text}
        \cup {dict(<<(<<2, dict(<<(<<3, b>>)>>)>>), (<<1, a>>)>>) : a \in text, b \in text}

\* _make_hashable with the items of a dict left in insertion order
RECURSIVE MakeHashableUnsorted(_)
MakeHashableUnsorted(value) ==
    IF value.t = "dict"
    THEN [i \in 1..Len(value.v) |->
             <<value.v[i][1], MakeHashableUnsorted(value.v[i][2])>>]
    ELSE IF value.t = "list"
    THEN [i \in 1..Len(value.v) |-> MakeHashableUnsorted(value.v[i])]
    ELSE value.v

\* _make_hashable: of a dict the tuple of its items sorted by key, each
\* value made hashable; of a list the tuple of its entries made hashable;
\* any other value itself
RECURSIVE make_hashable(_)
make_hashable(value) ==
    IF value.t = "dict"
    THEN LET n == Len(value.v)
             \* the position in value.v of the item that is i-th in sorted order
             at(i) == CHOOSE k \in 1..n :
                          Cardinality({j \in 1..n : value.v[j][1] < value.v[k][1]}) = i - 1
         IN  [i \in 1..n |-> <<value.v[at(i)][1], make_hashable(value.v[at(i)][2])>>]
    ELSE IF value.t = "list"
    THEN [i \in 1..Len(value.v) |-> make_hashable(value.v[i])]
    ELSE value.v

\* the end of the OBJECTS branch of extract_field: the records of arr whose
\* key is not in seen, in order
unique(arr) ==
    LET RECURSIVE loop(_, _, _)
        loop(i, seen, out) ==
            IF i > Len(arr) THEN out
            ELSE LET key == make_hashable(arr[i])
                 IN  IF key \in seen THEN loop(i + 1, seen, out)
                     ELSE loop(i + 1, seen \cup {key}, Append(out, arr[i]))
    IN  loop(1, {}, <<>>)

\* extract_field on an OBJECTS field whose nodes gave the records arr; the
\* result is deduplicated once more to compare
ExtractField ==
    /\ task.op = "extract_field"
    /\ task.result.t = "pending"
    /\ task' = [task EXCEPT !.result = [t |-> "list", v |-> unique(task.arr)],
                            !.again = unique(unique(task.arr))]

\* number of values _generate_perf_metrics can draw
MaxMetrics == 2

\* run_yaml_rules_on_html, for a rule document of one offscreen step with the
\* output pageData whose selectors are the template obj: the fields of
\* the step's output, or the exception raised.  yaml.safe_load raises on a
\* document it can not parse and gives None for an empty one; the step's
\* placeholders are resolved with the vars; lxml raises on an html text
\* without content and on an empty selector; the nodes of the page give the
\* records arr
run_yaml_rules_on_html(target_url_html, task_yaml_rules, context, arr) ==
    LET run_offscreen_like(resolved_step) ==
            IF resolved_step.t = "raised" THEN resolved_step
            ELSE IF target_url_html = "unparsable" THEN Raised("ParserError")
            ELSE IF resolved_step.v = <<>> THEN Raised("XPathEvalError")
            ELSE [t |-> "dict",
                  v |-> [title |-> <<"t">>, createdAt |-> <<"c">>, question |-> <<"q">>,
                         answers |-> unique(arr)]]
    IN  IF task_yaml_rules.kind = "unparsable" THEN Raised("YAMLError")
        ELSE IF task_yaml_rules.kind = "null" THEN Raised("AttributeError")
        ELSE run_offscreen_like(resolve_placeholders(task_yaml_rules.obj, context))

\* largest number of steps of a rule document
MaxSteps == 3

\* the rule documents of the loop of run_yaml_rules_on_html: a step has the
\* handler use, the name output (None for a step without one) and the
\* selector obj of its rules, a str that can hold a placeholder
StepDocuments ==
    LET handlers == {<<"offscreen", None>>, <<"offscreen", <<"a">>>>,
                     <<"offscreen", <<"b">>>>, <<"other", <<"a">>>>}
        selectors ==
            {<<"/", "/", "h", "1">>,
             <<"{", "{", "s", "t", "e", "p", "s", ".", "a", ".", "f", "i", "e", "l", "d", "s", ".", "t", "i", "t", "l", "e", "}", "}">>,
             <<"{", "{", "s", "t", "e", "p", "s", ".", "b", ".", "f", "i", "e", "l", "d", "s", ".", "t", "i", "t", "l", "e", "}", "}">>}
        step == {[use |-> h[1], output |-> h[2], obj |-> obj] :
                     h \in handlers, obj \in selectors}
    IN  UNION {[1..n -> step] : n \in 0..MaxSteps}

\* the result of run_offscreen_like for the rules of step k: the fields the
\* rules select, the text of the k-th heading of the page as title
StepResult(k) ==
    [t |-> "dict",
     v |-> <<"f", "i", "e", "l", "d", "s">> :>
               [t |-> "dict",
                v |-> <<"t", "i", "t", "l", "e">> :>
                          PyStr(<<(<<"1", "2", "3", "4", "5", "6", "7", "8", "9">>)[k]>>)]]

\* {'vars': vars_data, 'steps': step_outputs}
PlaceholderContext(vars_data, step_outputs) ==
    [t |-> "dict",
     v |-> <<"v", "a", "r", "s">> :> vars_data
           @@ <<"s", "t", "e", "p", "s">> :> [t |-> "dict", v |-> step_outputs]]

\* the body of the loop with the result stored for every handler
RunStepAnyHandler ==
    /\ task.op = "steps"
    /\ task.k <= Len(task.steps)
    /\ LET step == task.steps[task.k]
           placeholder_context == PlaceholderContext(task.vars_data, task.step_outputs)
           run(resolved_step) ==
               [task EXCEPT
                  !.k = @ + 1,
                  !.seen = Append(@, placeholder_context),
                  !.resolved = Append(@, resolved_step),
                  !.step_outputs =
                      IF step.output # None
                      THEN (step.output :> StepResult(task.k)) @@ @
                      ELSE @]
       IN  task' = run(resolve_placeholders(step.obj, placeholder_context))

\* the body of the loop of run_yaml_rules_on_html for the next step of the
\* document: the step is resolved with the outputs stored so far, then an
\* offscreen step with an output name stores its result under the name;
\* seen and resolved keep the context and the resolved selector of every
\* step
RunStep ==
    /\ task.op = "steps"
    /\ task.k <= Len(task.steps)
    /\ LET step == task.steps[task.k]
           placeholder_context == PlaceholderContext(task.vars_data, task.step_outputs)
           run(resolved_step) ==
               [task EXCEPT
                  !.k = @ + 1,
                  !.seen = Append(@, placeholder_context),
                  !.resolved = Append(@, resolved_step),
                  !.step_outputs =
                      IF step.use = "offscreen" /\ step.output # None
                      THEN (step.output :> StepResult(task.k)) @@ @
                      ELSE @]
       IN  task' = run(resolve_placeholders(step.obj, placeholder_context))

\* Bot.process_task as one attempt of process_farm runs it.  request_task
\* returns no task, returns a task, or raises; the page of a task is fetched
\* (None when the fetch fails) and build_task_json_data gives the step
\* outputs of the task's rules, or the empty pageData when there is no page
\* or the rules raise (lxml raises on the page when an offscreen step
\* runs); the title is then read at result.pageData.fields, which raises
\* AttributeError when the result has no pageData; else complete_task
\* submits the payload, or raises.  An exception ends the attempt, and
\* process_farm makes the next one unless this was the last
process_task(task_data, completes) ==
    /\ task.op = "process_task"
    /\ task.pc = "request"
    /\ LET pageData == <<"p", "a", "g", "e", "D", "a", "t", "a">>
           offscreen == {j \in 1..Len(task.steps) :
                             task.steps[j].use = "offscreen"}
           named(n) == {j \in offscreen : task.steps[j].output = n}
           names == {task.steps[j].output : j \in offscreen} \ {None}
           rules_raise == task.target_url_html = "unparsable" /\ offscreen # {}
           step_outputs ==
               IF task.target_url_html = "None" \/ rules_raise
               THEN pageData :> "empty"
               ELSE [n \in names |->
                        StepResult(CHOOSE j \in named(n) : \A i \in named(n) : i <= j)]
           failed == [task EXCEPT
                        !.attempt = @ + 1,
                        !.pc = IF is_last_attempt(task.attempt, task.max_farm_attempts)
                               THEN "returned" ELSE "request"]
       IN  IF task_data = "raises"
           THEN task' = [failed EXCEPT !.remote_failed = TRUE]
           ELSE IF task_data = "none"
           THEN task' = [task EXCEPT !.pc = "returned"]
           ELSE IF pageData \notin DOMAIN step_outputs
           THEN task' = [failed EXCEPT !.received = @ + 1]
           ELSE IF ~completes
           THEN task' = [failed EXCEPT !.received = @ + 1, !.remote_failed = TRUE]
           ELSE task' = [task EXCEPT
                           !.received = @ + 1,
                           !.submitted = Append(@, step_outputs),
                           !.pc = "returned"]

\* build_task_json_data without its try statement
BuildUncaught(target_url_html, task_yaml_rules, context, arr, perf_metrics) ==
    LET empty == [title |-> <<>>, createdAt |-> <<>>, question |-> <<>>,
                  answers |-> <<>>]
        payload(step_outputs) ==
            IF step_outputs.t = "raised"
            THEN [raised |-> TRUE, fields |-> empty, perfMetrics |-> 0, metadata |-> 0]
            ELSE [raised |-> FALSE, fields |-> step_outputs.v,
                  perfMetrics |-> perf_metrics, metadata |-> perf_metrics]
    IN  IF target_url_html = "None"
        THEN [raised |-> FALSE, fields |-> empty,
              perfMetrics |-> perf_metrics, metadata |-> perf_metrics]
        ELSE payload(run_yaml_rules_on_html(target_url_html, task_yaml_rules,
                                            context, arr))

\* build_task_json_data with the drawn metrics written into the fields
BuildMetricsInFields(target_url_html, task_yaml_rules, context, arr, perf_metrics) ==
    [raised |-> FALSE,
     fields |-> [title |-> <<>>, createdAt |-> <<>>, question |-> <<>>,
                 answers |-> [i \in 1..perf_metrics |-> arr[1]]],
     perfMetrics |-> perf_metrics, metadata |-> perf_metrics]

\* build_task_json_data: result.pageData.fields, result.perfMetrics and
\* metadata of the payload, and whether an exception left the call
build_task_json_data(target_url_html, task_yaml_rules, context, arr, perf_metrics) ==
    LET empty == [title |-> <<>>, createdAt |-> <<>>, question |-> <<>>,
                  answers |-> <<>>]
        fields(step_outputs) ==
            IF step_outputs.t = "raised" THEN empty ELSE step_outputs.v
    IN  [raised |-> FALSE,
         fields |-> IF target_url_html = "None" THEN empty
                    ELSE fields(run_yaml_rules_on_html(target_url_html, task_yaml_rules,
                                                       context, arr)),
         perfMetrics |-> perf_metrics, metadata |-> perf_metrics]

\* a run of build_task_json_data on the task, with the metrics it draws
BuildTaskJsonData(perf_metrics) ==
    /\ task.op = "build"
    /\ Len(task.payloads) < 2
    /\ task' = [task EXCEPT !.payloads =
                   Append(@, build_task_json_data(task.target_url_html,
                                                  task.task_yaml_rules, task.context,
                                                  task.arr, perf_metrics))]

MgrInit ==
    /\ SchedIdle
    /\ MgrIdle
    /\ shutdown_event = FALSE
    /\ DispatchIdle
    /\ PoolIdle
    /\ ClassifierIdle
    /\ FarmIdle
    /\ RegIdle
    /\ PrepIdle
    /\ BootIdle
    /\ TaskIdle
    /\ BatchIdle

Init ==
    /\ MgrIdle
    /\ DispatchIdle
    /\ PoolIdle
    /\ ClassifierIdle
    /\ FarmIdle
    /\ RegIdle
    /\ PrepIdle
    /\ BootIdle
    /\ TaskIdle
    /\ BatchIdle
    /\ prepared_devices \in PreparedLists
    /\ devices_in_progress = {}
    /\ tasks = EmptyBag
    /\ semaphore = max_concurrent_tasks
    /\ loop_pc = "bootstrap"
    /\ shutdown_event = FALSE
    /\ ended = NoEnd

Next ==
    \/ StartLoop /\ UNCHANGED <<mgrVars, extVars>>
    \/ Tick /\ UNCHANGED <<mgrVars, extVars>>
    \/ Cancel /\ UNCHANGED <<mgrVars, extVars>>
    \/ Advance /\ UNCHANGED <<mgrVars, extVars>>
    \/ \E u \in Units, account_ok \in BOOLEAN :
           Start(u, account_ok) /\ UNCHANGED <<mgrVars, extVars>>
    \/ \E u \in Units, save_ok \in BOOLEAN :
           PingReturns(u, save_ok) /\ UNCHANGED <<mgrVars, extVars>>
    \/ \E u \in Units, save_ok \in BOOLEAN :
           TaskReturns(u, save_ok) /\ UNCHANGED <<mgrVars, extVars>>
    \/ \E u \in Units : CleanupReturns(u) /\ UNCHANGED <<mgrVars, extVars>>
    \/ \E u \in Units : UnitRaises(u) /\ UNCHANGED <<mgrVars, extVars>>
    \/ \E u \in Units : UnitTimeout(u) /\ UNCHANGED <<mgrVars, extVars>>

\* the scheduler of one worker process
Spec == Init /\ [][Next]_vars

NextShutdown ==
    \/ Next
    \/ RequestShutdown /\ UNCHANGED <<mgrVars, extVars>>

\* the scheduler, in a process whose shutdown event is set at some time
SpecShutdown == Init /\ [][NextShutdown]_vars

NextMgr ==
    \/ \E process_count \in 0..MaxProcs : StartWorkers(process_count) /\ UNCHANGED extVars
    \/ \E p \in Workers : WorkerExits(p) /\ UNCHANGED extVars
    \/ MonitorPoll /\ UNCHANGED extVars
    \/ MonitorInterrupted /\ UNCHANGED extVars
    \/ StopCalled /\ UNCHANGED extVars
    \/ StopEnd /\ UNCHANGED extVars
    \/ RequestShutdown /\ UNCHANGED <<mgrVars, extVars>>

\* the dispatcher
SpecMgr == MgrInit /\ [][NextMgr]_vars

\* the core of the program at rest, in a run of one of its other parts
CoreIdle ==
    /\ SchedIdle
    /\ MgrIdle
    /\ shutdown_event = FALSE

DispatchInit ==
    /\ CoreIdle
    /\ PoolIdle
    /\ ClassifierIdle
    /\ FarmIdle
    /\ RegIdle
    /\ PrepIdle
    /\ BootIdle
    /\ TaskIdle
    /\ BatchIdle
    /\ \E in \in DispatchInputs : dispatch = DispatchStart(in)

NextDispatch ==
    \/ PlanProcesses /\ UNCHANGED <<coreVars, pool, classified, farm, reg, prep, boot, task, batch_limit>>
    \/ SpawnProcess /\ UNCHANGED <<coreVars, pool, classified, farm, reg, prep, boot, task, batch_limit>>

\* start_multiprocess_farming up to the supervision
SpecDispatch == DispatchInit /\ [][NextDispatch]_vars

(***************************************************************************)
(* Properties.                                                             *)
(***************************************************************************)
\* the positions of prepared_devices in the ready list a tick computes
ReadySet ==
    LET ready_devices == get_ready_devices(prepared_devices, max_devices_per_batch)
    IN  {ready_devices[k] : k \in 1..Len(ready_devices)}

\* C1: at no time do two device units for the same device id exist
\* concurrently, for every prepared-device list and every interleaving of
\* ticks and unit completions.
C1_OneUnitPerDeviceId ==
    \A u \in Units :
        /\ CopiesIn(u, tasks) = 1
        /\ \A v \in Units : DeviceId(u) = DeviceId(v) => u = v

\* C2: whenever a device unit ends (normal completion, exception, timeout)
\* its device id is removed from the in-flight set, and the set never
\* retains the id of a unit that has ended: every id in the set is the id
\* of a unit that still exists.
C2_EndedUnitLeavesInFlightSet ==
    /\ ended # NoEnd =>
           prepared_devices[ended.dev].device_id \notin devices_in_progress
    /\ devices_in_progress \subseteq {DeviceId(u) : u \in Units}

\* a unit has ended by the timeout while another unit is still in flight
C2_Witness ==
    /\ ended # NoEnd
    /\ ended.how = "timeout"
    /\ devices_in_progress # {}

\* C3: the ready-set computation includes a device if and only if its ping
\* mark is unset or elapsed, or its task mark is unset or elapsed; it is
\* excluded exactly when both marks are set and strictly future.
C3_ReadyIffAMarkUnsetOrElapsed ==
    \A s \in 1..Len(prepared_devices) :
        s \in ReadySet <=>
            ~ /\ prepared_devices[s].next_ping_at # None
              /\ prepared_devices[s].next_ping_at[1] > now
              /\ prepared_devices[s].next_task_request_at # None
              /\ prepared_devices[s].next_task_request_at[1] > now

\* C4: in a unit where the ping completes and the task request is cut off
\* by the timeout, next_ping_at has been updated (the step in which the ping
\* completes sets it, and the timeout leaves it), next_task_request_at keeps
\* its value (neither the ping's completion nor the timeout writes it), and
\* the device id is removed from the in-flight set; the id is likewise
\* removed when the unit completes without timeout.
C4_PingKeptTaskMarkUntouched ==
    /\ [](\A u \in Units : u.ping => prepared_devices[u.dev].next_ping_at # None)
    /\ [][\A u \in Units :
            /\ (u.pc = "ping" /\ Unit(u.dev, "task", TRUE, FALSE) \in Units'
                    /\ tasks' = Replace(u, Unit(u.dev, "task", TRUE, FALSE)))
               => /\ prepared_devices'[u.dev].next_ping_at = get_sleep_until(PING_INTERVAL)
                  /\ prepared_devices'[u.dev].next_task_request_at
                        = prepared_devices[u.dev].next_task_request_at
            /\ (u.pc = "task" /\ u.ping /\ tasks' = tasks (-) SetToBag({u})
                    /\ ended' # NoEnd /\ ended'.how = "timeout")
               => /\ prepared_devices' = prepared_devices
                  /\ prepared_devices[u.dev].next_ping_at # None
                  /\ DeviceId(u) \notin devices_in_progress'
            /\ (u.pc = "cleanup" /\ tasks' = tasks (-) SetToBag({u})
                    /\ ended' # NoEnd /\ ended'.how = "returned")
               => DeviceId(u) \notin devices_in_progress'
         ]_vars

\* a unit whose ping had completed has been cut off in its task request
C4_Witness ==
    /\ ended # NoEnd
    /\ ended.how = "timeout"
    /\ ended.pc = "task"
    /\ ended.ping
    /\ prepared_devices[ended.dev].next_ping_at # None
    /\ prepared_devices[ended.dev].device_id \notin devices_in_progress

\* C5: at any time the number of device units executing their ping/task
\* work (holding the semaphore) is at most max_concurrent_tasks, however
\* many devices have been launched and are in the in-flight set.
C5_ExecutingAtMostMaxConcurrent ==
    LET executing == {u \in Units : u.pc \in Executing}
    IN  BagCardinality([u \in executing |-> CopiesIn(u, tasks)]) <= max_concurrent_tasks

\* every permit is taken and a launched unit waits for one
C5_Witness ==
    /\ semaphore = 0
    /\ \E u \in Units : u.pc \in Executing
    /\ \E u \in Units : u.pc = "queued"
    /\ BagCardinality(tasks) > max_concurrent_tasks

\* C6: an exception inside a device unit never stops the main loop: a step
\* in which a unit ends leaves the loop where it is; the loop is left only
\* by cancellation, and the method returns before the loop only when the
\* bootstrap prepared nothing.
C6_UnitFailureNeverStopsLoop ==
    /\ [](loop_pc \in {"bootstrap", "loop", "cancelled", "returned"})
    /\ [](loop_pc = "returned" => Len(prepared_devices) = 0)
    /\ [][(ended' # NoEnd) => loop_pc' = loop_pc]_vars
    /\ [][loop_pc = "loop" /\ loop_pc' # "loop" =>
            loop_pc' = "cancelled" /\ ended' = NoEnd]_vars
    /\ [][loop_pc = "bootstrap" /\ loop_pc' = "returned" =>
            Len(prepared_devices) = 0]_vars

\* a unit has ended by an exception, the loop runs and another unit is left
C6_Witness ==
    /\ ended # NoEnd
    /\ ended.how = "error"
    /\ loop_pc = "loop"
    /\ tasks # EmptyBag

\* C7, as stated: after a unit is abandoned by the timeout the device is a
\* member of the ready set the next tick computes, for every state of the
\* two marks at the moment of the timeout.
C7_TimedOutDeviceIsReady ==
    (ended # NoEnd /\ ended.how = "timeout") => ended.dev \in ReadySet

\* C7, amended: the timeout itself changes no mark of any device, so the
\* device is a member of the ready set computed after the timeout exactly
\* when the marks it had just before the timeout make it ready.
C7_TimeoutChangesNoMark ==
    [][(ended' # NoEnd /\ ended'.how = "timeout") =>
         /\ prepared_devices' = prepared_devices
         /\ ended'.dev \in ReadySet' <=> IsReadyDevice(prepared_devices[ended'.dev])
      ]_vars

\* a unit has been abandoned by the timeout and its device is not ready
C7_Witness ==
    /\ ended # NoEnd
    /\ ended.how = "timeout"
    /\ ended.dev \notin ReadySet

\* C8: once shutdown has been requested the main loop launches no further
\* device unit from its next tick on.
C8_NoLaunchAfterShutdown ==
    [][shutdown_event =>
         \A u \in Units' : u.pc = "queued" => CopiesIn(u, tasks') <= CopiesIn(u, tasks)
      ]_vars

\* C9: when a shutdown is requested or a worker is found to have exited, the
\* dispatcher ends with the two-step escalation: when its supervision is
\* over, every worker that is still alive has received the forced kill, so
\* that no worker process is alive.
C9_TwoStepEscalation ==
    (mgr_pc = "done" /\ stop_pc = "none") =>
        \A p \in Workers : alive[p] => "kill" \in signalled[p]

\* C10: stop() is idempotent: a call that finds the worker list empty (after
\* a first call, or with no worker ever started) sends no signal and changes
\* nothing, and a call that returns leaves the worker list empty.
C10_StopIdempotent ==
    /\ [][(stop_calls' # stop_calls /\ Len(processes) = 0) =>
            /\ stop_calls' = stop_calls + 1
            /\ UNCHANGED <<processes, alive, signalled, stop_pc, mgr_pc>>]_vars
    /\ [][(stop_pc' = "none" /\ (stop_pc = "sleep" \/ stop_calls' # stop_calls)) =>
            Len(processes') = 0]_vars

\* stop() has been called again after a call that terminated and killed
C10_Witness ==
    /\ stop_calls = 2
    /\ stop_pc = "none"
    /\ Len(processes) = 0
    /\ \E p \in Workers : "kill" \in signalled[p]

PoolInit ==
    /\ CoreIdle
    /\ DispatchIdle
    /\ PoolIdle
    /\ ClassifierIdle
    /\ FarmIdle
    /\ RegIdle
    /\ PrepIdle
    /\ BootIdle
    /\ TaskIdle
    /\ BatchIdle

NextPool ==
    \/ \E proxy_urls \in UNION {[1..n -> ProxyStrings] : n \in 0..MaxPool} :
           load_proxies(proxy_urls) /\ UNCHANGED <<coreVars, dispatch, classified, farm, reg, prep, boot, task, batch_limit>>
    \/ get_proxy /\ UNCHANGED <<coreVars, dispatch, classified, farm, reg, prep, boot, task, batch_limit>>
    \/ \E proxy \in ProxyStrings \cup {NoProxy} :
           release_proxy(proxy) /\ UNCHANGED <<coreVars, dispatch, classified, farm, reg, prep, boot, task, batch_limit>>
    \/ \E proxy \in ProxyStrings \cup {NoProxy} :
           remove_proxy(proxy) /\ UNCHANGED <<coreVars, dispatch, classified, farm, reg, prep, boot, task, batch_limit>>
    \/ get_stats /\ UNCHANGED <<coreVars, dispatch, classified, farm, reg, prep, boot, task, batch_limit>>

\* the proxy pool of one process under any sequence of calls
SpecPool == PoolInit /\ [][NextPool]_vars

ClassifyInit ==
    /\ CoreIdle
    /\ DispatchIdle
    /\ PoolIdle
    /\ ClassifierIdle
    /\ FarmIdle
    /\ RegIdle
    /\ PrepIdle
    /\ BootIdle
    /\ TaskIdle
    /\ BatchIdle

NextClassify ==
    \E error \in Errors : Classify(error) /\ UNCHANGED <<coreVars, dispatch, pool, farm, reg, prep, boot, task, batch_limit>>

\* the failure classifier on every exception of the bounded vocabulary
SpecClassify == ClassifyInit /\ [][NextClassify]_vars

\* a loaded pool
LoadedPool(proxies) ==
    [proxies |-> proxies, op |-> "load_proxies", arg |-> proxies,
     result |-> NoProxy, logged |-> FALSE]

FarmInit ==
    /\ CoreIdle
    /\ DispatchIdle
    /\ ClassifierIdle
    /\ RegIdle
    /\ PrepIdle
    /\ BootIdle
    /\ TaskIdle
    /\ BatchIdle
    /\ \E proxies \in UNION {[1..n -> ProxyNames] : n \in 0..(MaxPool - 1)} :
           pool = LoadedPool(proxies)
    /\ \E enabled \in BOOLEAN, max_attempts \in 0..MaxAttempts,
          device_proxy \in {NoProxy, "p1"}, account_proxy \in {NoProxy, "p1"} :
           farm = FarmStart(enabled, max_attempts, device_proxy, account_proxy)

NextFarm ==
    \/ \E call \in CallOutcomes :
           FarmAttempt(call) /\ UNCHANGED <<coreVars, dispatch, classified, reg, prep, boot, task, batch_limit>>
    \/ \E db_ok \in BOOLEAN :
           UpdateAccountProxy(db_ok) /\ UNCHANGED <<coreVars, dispatch, classified, reg, prep, boot, task, batch_limit>>
    \/ Cleanup /\ UNCHANGED <<coreVars, dispatch, classified, reg, prep, boot, task, batch_limit>>

\* one farming operation of a Bot
SpecFarm == FarmInit /\ [][NextFarm]_vars

RegInit ==
    /\ CoreIdle
    /\ DispatchIdle
    /\ ClassifierIdle
    /\ FarmIdle
    /\ PrepIdle
    /\ BootIdle
    /\ TaskIdle
    /\ BatchIdle
    /\ \E proxies \in UNION {[1..n -> ProxyNames] : n \in 0..(MaxPool - 1)} :
           pool = LoadedPool(proxies)
    /\ \E enabled \in BOOLEAN, max_attempts \in 0..MaxAttempts,
          proxy \in {NoProxy, "p1"} :
           reg = RegStart(enabled, max_attempts, proxy)

NextReg ==
    \/ \E outcome \in PassOutcomes, should_rotate \in BOOLEAN :
           RegAttempt(outcome, should_rotate)
           /\ UNCHANGED <<coreVars, dispatch, classified, farm, prep, boot, task, batch_limit>>
    \/ UpdateProxyAndRetry /\ UNCHANGED <<coreVars, dispatch, classified, farm, prep, boot, task, batch_limit>>
    \/ \E stopped \in {"no", "first", "second"} :
           HandleCurlCffiError(stopped)
           /\ UNCHANGED <<coreVars, dispatch, classified, farm, prep, boot, task, batch_limit>>

\* one registration of a Bot
SpecReg == RegInit /\ [][NextReg]_vars

\* one operation of a Bot, a farming operation or a registration
RetryInit == FarmInit \/ RegInit

NextRetry == NextFarm \/ NextReg

SpecRetry == RetryInit /\ [][NextRetry]_vars

PrepInit ==
    /\ CoreIdle
    /\ DispatchIdle
    /\ PoolIdle
    /\ ClassifierIdle
    /\ FarmIdle
    /\ RegIdle
    /\ BootIdle
    /\ TaskIdle
    /\ BatchIdle
    /\ \E accounts \in SUBSET Emails,
          table \in [Emails -> {"absent", "no_token", "token"}] :
           prep = PrepStart(accounts, table)

NextPrep ==
    \/ get_accounts /\ UNCHANGED <<coreVars, dispatch, pool, classified, farm, reg, boot, task, batch_limit>>
    \/ PrepareLoop /\ UNCHANGED <<coreVars, dispatch, pool, classified, farm, reg, boot, task, batch_limit>>
    \/ PrepareReturn /\ UNCHANGED <<coreVars, dispatch, pool, classified, farm, reg, boot, task, batch_limit>>

\* bootstrap step 1 of a farming process
SpecPrep == PrepInit /\ [][NextPrep]_vars

\* the tables the process can find at its start: every device_id in at most
\* one row
DeviceTables ==
    LET owners == [ProxyNames -> (BootAccounts \cup {0}) \X {None, <<0>>}]
        RECURSIVE table(_, _)
        table(o, ids) ==
            IF ids = {} THEN <<>>
            ELSE LET p == CHOOSE x \in ids : TRUE
                 IN  (IF o[p][1] = 0 THEN <<>>
                      ELSE <<[device_id |-> uuid3(p), account |-> o[p][1],
                              next_ping_at |-> o[p][2],
                              next_task_request_at |-> o[p][2]]>>)
                     \o table(o, ids \ {p})
    IN  {table(o, ProxyNames) : o \in owners}

BootInit ==
    /\ CoreIdle
    /\ DispatchIdle
    /\ ClassifierIdle
    /\ FarmIdle
    /\ RegIdle
    /\ PrepIdle
    /\ TaskIdle
    /\ BatchIdle
    /\ \E proxies \in UNION {[1..n -> ProxyNames] : n \in 0..(MaxPool - 1)} :
           pool = LoadedPool(proxies)
    /\ \E devices \in DeviceTables, limit \in [BootAccounts -> 1..MaxTarget],
          delay_min \in 0..MaxDelay, delay_max \in 0..MaxDelay :
           boot = [pc |-> "run", devices |-> devices,
                   delay_min |-> delay_min, delay_max |-> delay_max,
                   prepared |-> <<>>,
                   acct |-> [a \in BootAccounts |-> BootStart(limit[a])]]

NextBoot ==
    \/ \E a \in BootAccounts :
           BootNodes(a) /\ UNCHANGED <<coreVars, dispatch, classified, farm, reg, prep, task, batch_limit>>
    \/ \E a \in BootAccounts :
           BootGetProxy(a) /\ UNCHANGED <<coreVars, dispatch, classified, farm, reg, prep, task, batch_limit>>
    \/ \E a \in BootAccounts :
           BootGetOrNone(a) /\ UNCHANGED <<coreVars, dispatch, classified, farm, reg, prep, task, batch_limit>>
    \/ \E a \in BootAccounts :
           BootWrite(a) /\ UNCHANGED <<coreVars, dispatch, classified, farm, reg, prep, task, batch_limit>>
    \/ \E a \in BootAccounts :
           BootReturn(a) /\ UNCHANGED <<coreVars, dispatch, classified, farm, reg, prep, task, batch_limit>>
    \/ PrepareDevices /\ UNCHANGED <<coreVars, dispatch, classified, farm, reg, prep, task, batch_limit>>

\* the device bootstraps of the accounts of a process
SpecBoot == BootInit /\ [][NextBoot]_vars

TaskInit ==
    /\ CoreIdle
    /\ DispatchIdle
    /\ PoolIdle
    /\ ClassifierIdle
    /\ FarmIdle
    /\ RegIdle
    /\ PrepIdle
    /\ BootIdle
    /\ BatchIdle
    /\ \/ \E context \in Contexts, template \in Templates :
              task = [op |-> "resolve", context |-> context,
                      pieces |-> template.pieces, obj |-> template.obj,
                      result |-> [t |-> "pending", v |-> <<>>]]
       \/ \E arr \in UNION {[1..n -> ObjectRecords] : n \in 0..MaxItems} :
              task = [op |-> "extract_field", arr |-> arr, again |-> <<>>,
                      result |-> [t |-> "pending", v |-> <<>>]]
       \/ \E html \in {"None", "unparsable", "page"},
             rules \in {[kind |-> "unparsable", obj |-> <<>>],
                        [kind |-> "null", obj |-> <<>>]}
                       \cup {[kind |-> "steps", obj |-> t.obj] :
                                 t \in {x \in Templates : Len(x.pieces) = 1}},
             context \in Contexts,
             arr \in [1..2 -> ObjectRecords] :
              task = [op |-> "build", target_url_html |-> html, arr |-> arr,
                      task_yaml_rules |-> rules, context |-> context,
                      payloads |-> <<>>]
       \/ \E steps \in StepDocuments :
              task = [op |-> "steps", steps |-> steps, k |-> 1,
                      vars_data |-> [t |-> "dict",
                                     v |-> <<"u", "r", "l">> :>
                                               PyStr(<<"h", "t", "t", "p", ":", "/", "/", "x">>)],
                      step_outputs |-> <<>>, seen |-> <<>>, resolved |-> <<>>]
       \/ \E html \in {"None", "unparsable", "page"},
             max_attempts \in 1..MaxAttempts,
             steps \in UNION {[1..n ->
                                  [use : {"offscreen", "other"},
                                   output : {None,
                                             <<"p", "a", "g", "e", "D", "a", "t", "a">>,
                                             <<"d", "a", "t", "a">>}]] :
                              n \in 0..(MaxSteps - 1)} :
              task = [op |-> "process_task", pc |-> "request", steps |-> steps,
                      target_url_html |-> html, max_farm_attempts |-> max_attempts,
                      attempt |-> 0, received |-> 0, submitted |-> <<>>,
                      remote_failed |-> FALSE]

NextTask ==
    \/ ResolvePlaceholders
       /\ UNCHANGED <<coreVars, dispatch, pool, classified, farm, reg, prep, boot, batch_limit>>
    \/ ExtractField
       /\ UNCHANGED <<coreVars, dispatch, pool, classified, farm, reg, prep, boot, batch_limit>>
    \/ \E perf_metrics \in 1..MaxMetrics :
           BuildTaskJsonData(perf_metrics)
           /\ UNCHANGED <<coreVars, dispatch, pool, classified, farm, reg, prep, boot, batch_limit>>
    \/ RunStep
       /\ UNCHANGED <<coreVars, dispatch, pool, classified, farm, reg, prep, boot, batch_limit>>
    \/ \E task_data \in {"none", "task", "raises"}, completes \in BOOLEAN :
           process_task(task_data, completes)
           /\ UNCHANGED <<coreVars, dispatch, pool, classified, farm, reg, prep, boot, batch_limit>>

\* one call on a FarmTask
SpecTask == TaskInit /\ [][NextTask]_vars

\* the scheduler with a max_devices_per_batch of the settings that can be
\* smaller than the number of prepared devices
BatchInit ==
    /\ MgrIdle
    /\ DispatchIdle
    /\ PoolIdle
    /\ ClassifierIdle
    /\ FarmIdle
    /\ RegIdle
    /\ PrepIdle
    /\ BootIdle
    /\ TaskIdle
    /\ batch_limit \in 1..max_devices_per_batch
    /\ prepared_devices \in PreparedLists
    /\ devices_in_progress = {}
    /\ tasks = EmptyBag
    /\ semaphore = max_concurrent_tasks
    /\ loop_pc = "bootstrap"
    /\ shutdown_event = FALSE
    /\ ended = NoEnd

SpecBatch == BatchInit /\ [][Next]_vars

\* a step of a device unit
UnitStep ==
    \E u \in Units :
        \/ \E account_ok \in BOOLEAN : Start(u, account_ok)
        \/ \E save_ok \in BOOLEAN : PingReturns(u, save_ok) \/ TaskReturns(u, save_ok)
        \/ CleanupReturns(u)
        \/ UnitRaises(u)
        \/ UnitTimeout(u)

\* a unit of time passes once the loop has made its pass: the passes are 5
\* seconds apart (asyncio.sleep(5)), the marks are minutes apart
PromptAdvance ==
    /\ loop_pc = "loop" => Len(ToLaunch) = 0
    /\ Advance

NextPrompt ==
    \/ StartLoop /\ UNCHANGED <<mgrVars, extVars>>
    \/ Tick /\ UNCHANGED <<mgrVars, extVars>>
    \/ Cancel /\ UNCHANGED <<mgrVars, extVars>>
    \/ PromptAdvance /\ UNCHANGED <<mgrVars, extVars>>
    \/ UnitStep /\ UNCHANGED <<mgrVars, extVars>>

\* the scheduler of SpecBatch with its scheduling: the loop makes its pass
\* every 5 seconds, every unit goes on until it has ended (wait_for bounds
\* it), and time passes
FairBatch ==
    /\ BatchInit
    /\ [][NextPrompt]_vars
    /\ WF_vars(StartLoop /\ UNCHANGED <<mgrVars, extVars>>)
    /\ SF_vars(Tick /\ UNCHANGED <<mgrVars, extVars>>)
    /\ WF_vars(UnitStep /\ UNCHANGED <<mgrVars, extVars>>)
    /\ WF_vars(PromptAdvance /\ UNCHANGED <<mgrVars, extVars>>)

\* the concatenation of a sequence of lists, in order
RECURSIVE Flatten(_)
Flatten(lists) ==
    IF Len(lists) = 0 THEN <<>> ELSE Head(lists) \o Flatten(Tail(lists))

\* C11: for every proxy list and every worker count P >= 1 the proxy
\* distribution puts each list position into exactly one partition, drops
\* and duplicates nothing (the partitions, in order, make up the list), and
\* the sizes of any two partitions differ by at most 1.
C11_ProxiesPartitioned ==
    dispatch.pc \in {"spawn", "monitor"} =>
        /\ dispatch.process_count >= 1
        /\ Len(dispatch.distributed_proxies) = dispatch.process_count
        /\ Flatten(dispatch.distributed_proxies) = dispatch.in.proxies
        /\ \A i, j \in 1..dispatch.process_count :
               Len(dispatch.distributed_proxies[i])
                   - Len(dispatch.distributed_proxies[j]) <= 1

\* proxies have been distributed to several workers with a remainder
C11_Witness ==
    /\ dispatch.pc = "monitor"
    /\ dispatch.process_count >= 2
    /\ Len(dispatch.in.proxies) % dispatch.process_count # 0
    /\ Len(dispatch.in.proxies) > dispatch.process_count

C13_ProcessCount ==
    dispatch.pc \in {"monitor", "returned", "raised"} =>
        LET in == dispatch.in
            c == IF in.multiprocess_max_processes > 0
                 THEN in.multiprocess_max_processes ELSE in.farming_threads
        IN  /\ Len(dispatch.started) =
                   Min(Min(c, Max(1, in.cpu_count - 1)), Len(in.accounts))
            /\ Len(dispatch.started) <= Len(in.accounts)

\* the accounts are fewer than the configured count and the processors
C13_Witness ==
    /\ dispatch.pc = "monitor"
    /\ Len(dispatch.started) = Len(dispatch.in.accounts)
    /\ Len(dispatch.in.accounts) >= 2
    /\ Len(dispatch.in.accounts) < dispatch.in.multiprocess_max_processes
    /\ Len(dispatch.in.accounts) < dispatch.in.cpu_count - 1

\* C14: get_proxy on an empty pool returns None without raising, logs the
\* exhaustion and leaves the pool empty; after a release of a proxy the next
\* get_proxy succeeds again.
C14_EmptyPoolAcquire ==
    /\ [][(pool'.op = "get_proxy" /\ Len(pool.proxies) = 0) =>
            /\ pool'.result = NoProxy
            /\ pool'.logged
            /\ Len(pool'.proxies) = 0]_vars
    /\ [][(pool.op = "release_proxy" /\ Truthy(pool.arg) /\ pool'.op = "get_proxy") =>
            /\ pool'.result \in ProxyStrings
            /\ Truthy(pool'.result)
            /\ ~pool'.logged]_vars

\* the pool was found empty, a proxy was released and then acquired
C14_Witness ==
    /\ pool.op = "get_proxy"
    /\ pool.result = NoProxy
    /\ pool.logged
    /\ Len(pool.proxies) = 0

\* C15: the pool is a FIFO queue under any sequence of calls: load_proxies
\* replaces the whole content, get_proxy removes and returns the front
\* entry, release_proxy of a non-empty value appends it at the back, of an
\* empty value changes nothing, remove_proxy deletes one entry equal to its
\* argument and returns whether it was found, get_stats equals the number
\* of entries.
C15_PoolIsFifo ==
    [][/\ pool'.op = "load_proxies" =>
            LET kept == SelectSeq(pool'.arg, LAMBDA url : strip(url) # "")
            IN  pool'.proxies = [k \in 1..Len(kept) |-> strip(kept[k])]
       /\ (pool'.op = "get_proxy" /\ Len(pool.proxies) > 0) =>
            /\ pool'.result = pool.proxies[1]
            /\ pool'.proxies = SubSeq(pool.proxies, 2, Len(pool.proxies))
       /\ pool'.op = "release_proxy" =>
            IF pool'.arg \in {NoProxy, ""}
            THEN pool'.proxies = pool.proxies
            ELSE pool'.proxies = pool.proxies \o <<pool'.arg>>
       /\ pool'.op = "remove_proxy" =>
            /\ pool'.result = (\E k \in 1..Len(pool.proxies) : pool.proxies[k] = pool'.arg)
            /\ IF pool'.result
               THEN \E k \in 1..Len(pool.proxies) :
                        /\ pool.proxies[k] = pool'.arg
                        /\ pool'.proxies = SubSeq(pool.proxies, 1, k - 1)
                                             \o SubSeq(pool.proxies, k + 1, Len(pool.proxies))
               ELSE pool'.proxies = pool.proxies
       /\ pool'.op = "get_stats" =>
            /\ pool'.result = Len(pool'.proxies)
            /\ pool'.proxies = pool.proxies
      ]_vars

\* a proxy released to a pool that held another one has come to the front
C15_Witness ==
    /\ pool.op = "get_proxy"
    /\ pool.result = "p2"
    /\ Len(pool.proxies) = 2
    /\ pool.proxies[1] = "p1"
    /\ pool.proxies[2] = "p2"

\* C16, as stated: the classifier returns rotatable for every exception
\* whose message contains "connection refused" and non-rotatable for every
\* exception whose message contains "already exist", whatever else the
\* message contains.
C16_ClassifiedByPhrase ==
    classified.pc = "done" =>
        /\ InMessage("connection refused", classified.error) => classified.result
        /\ InMessage("already exist", classified.error) => ~classified.result

\* C16, amended: a message with a database or non-proxy pattern ("email
\* already exist" among them) is non-rotatable whatever else it contains; a
\* message with "connection refused" and no such pattern is rotatable; a
\* message with "already exist" and no such pattern is non-rotatable only
\* when it has no transport pattern and the exception type is no
\* RequestError or CurlError.
C16_NonProxyPatternsFirst ==
    classified.pc = "done" =>
        LET error == classified.error
            non_proxy == \E pattern \in database_errors \cup non_proxy_errors :
                             InMessage(pattern, error)
            transport == TransportType(error)
                         \/ \E pattern \in proxy_errors : InMessage(pattern, error)
        IN  /\ non_proxy => ~classified.result
            /\ InMessage("email already exist", error) => ~classified.result
            /\ (InMessage("connection refused", error) /\ ~non_proxy) => classified.result
            /\ (InMessage("already exist", error) /\ ~non_proxy) =>
                   (classified.result <=> transport)

\* a message with "connection refused" and a non-proxy pattern was classified
C16_Witness ==
    /\ classified.pc = "done"
    /\ InMessage("connection refused", classified.error)
    /\ InMessage("not found", classified.error)
    /\ ~classified.result

\* a step of process_farm in which an attempt was made and failed with an
\* exception that is not an APIError
FarmAttemptFailed ==
    /\ farm.pc = "attempt"
    /\ farm'.attempts_made = farm.attempts_made + 1
    /\ farm'.outcome \in {"exception", "proxy_auth", "unauthorized"}

\* C17: a farming operation makes at most max_farm_attempts attempts; when
\* the last attempt fails the operation returns: nothing is rotated, no
\* exception leaves process_farm, and no step of the operation follows the
\* return (the cleanup of the unit leaves the operation as it returned)
C17_AbandonedAfterLastAttempt ==
    /\ [](farm.pc # "none" => farm.attempts_made <= farm.max_farm_attempts)
    /\ [][(FarmAttemptFailed /\ farm.attempt = farm.max_farm_attempts - 1)
            => /\ farm'.pc = "returned"
               /\ farm'.rotations = farm.rotations]_vars
    /\ [][farm.pc = "returned"
            => [farm' EXCEPT !.cleaned = FALSE] = [farm EXCEPT !.cleaned = FALSE]]_vars

\* the last of several attempts has failed and the operation has returned
C17_Witness ==
    /\ farm.pc = "returned"
    /\ farm.max_farm_attempts > 1
    /\ farm.attempts_made = farm.max_farm_attempts
    /\ farm.outcome = "exception"

\* a step of the failure handling of either flow with the rotation switched
\* off: _update_account_proxy, _update_proxy_and_retry, _handle_curl_cffi_error
HandlingWithRotationOff ==
    \/ farm.pc = "update_proxy" /\ ~farm.proxy_rotation_enabled
    \/ reg.pc \in {"update_proxy", "curl_cffi"} /\ ~reg.proxy_rotation_enabled

\* the pool and the proxies of the Bot, the device and the account are the
\* same after the step
ProxiesUntouched ==
    /\ pool' = pool
    /\ farm.pc # "none" =>
           /\ farm'.proxy = farm.proxy
           /\ farm'.device_proxy = farm.device_proxy
           /\ farm'.account_proxy = farm.account_proxy
           /\ farm'.rotations = farm.rotations
    /\ reg.pc # "none" =>
           /\ reg'.proxy = reg.proxy
           /\ reg'.rotations = reg.rotations

\* with the rotation switched off, a failed farming attempt before the last
FarmFailedBeforeLast ==
    /\ FarmAttemptFailed
    /\ ~farm.proxy_rotation_enabled
    /\ farm.attempt < farm.max_farm_attempts - 1

\* C18 as stated: with proxy rotation disabled, failure handling leaves the
\* pool and the assigned proxies unchanged, and every failed attempt before
\* the last is followed by the retry delay and a retry
C18_OnlyWaitAndRetry ==
    /\ [][HandlingWithRotationOff => ProxiesUntouched]_vars
    /\ [][FarmFailedBeforeLast => farm'.pc = "update_proxy"]_vars
    /\ [][(farm.pc = "update_proxy" /\ ~farm.proxy_rotation_enabled)
            => farm'.pc = "attempt" /\ farm'.attempt = farm.attempt + 1]_vars

\* C18, amended: with proxy rotation disabled, failure handling leaves the
\* pool and the assigned proxies unchanged and nothing is ever rotated; a
\* failed farming attempt before the last is followed by the retry delay and
\* a retry unless its error is 'Proxy Authentication Required', after which
\* the operation returns at once without a retry
C18_NeverRotatesWhenDisabled ==
    /\ [][HandlingWithRotationOff => ProxiesUntouched]_vars
    /\ []((farm.pc # "none" /\ ~farm.proxy_rotation_enabled) => farm.rotations = 0)
    /\ []((reg.pc # "none" /\ ~reg.proxy_rotation_enabled) => reg.rotations = 0)
    /\ [][FarmFailedBeforeLast
            => farm'.pc = IF farm'.outcome = "proxy_auth"
                          THEN "returned" ELSE "update_proxy"]_vars
    /\ [][(farm.pc = "update_proxy" /\ ~farm.proxy_rotation_enabled)
            => farm'.pc = "attempt" /\ farm'.attempt = farm.attempt + 1]_vars

\* with the rotation switched off and proxies in the pool, a failed attempt
\* has been handled and the second attempt is due
C18_Witness ==
    /\ farm.pc = "attempt"
    /\ ~farm.proxy_rotation_enabled
    /\ farm.attempt = 1
    /\ farm.outcome = "exception"
    /\ Len(pool.proxies) > 0

\* C19: in the registration flow an APIError or a failed validation during
\* a registration attempt ends the flow with failure at once, no further
\* attempt being made
C19_BusinessFailureAborts ==
    [][(/\ reg.pc = "attempt"
        /\ reg'.attempts_made = reg.attempts_made + 1
        /\ reg'.outcome \in {"api_error", "validation_failed"})
          => reg'.pc = "failed"]_vars

\* the entries of a list
Range(list) == {list[i] : i \in 1..Len(list)}

\* C20: the list _prepare_accounts returns has no account without a
\* credential token and has every account of the input that has one
C20_PreparedHaveToken ==
    prep.pc = "returned" =>
        Range(prep.prepared_accounts) =
            {email \in prep.accounts : prep.table[email] = "token"}

\* C21: a bootstrap that found d devices for a target t > d has created
\* min(t - d, k) devices, k being the number of proxies the pool gave it; a
\* bootstrap that found t devices has taken no proxy and created no device
C21_CreatesMissingDevices ==
    boot.pc = "run" =>
        \A a \in BootAccounts :
            boot.acct[a].pc = "done" =>
                IF boot.acct[a].nodes < boot.acct[a].limit
                THEN boot.acct[a].created =
                         Min(boot.acct[a].limit - boot.acct[a].nodes,
                             Len(boot.acct[a].proxies))
                ELSE boot.acct[a].calls = 0 /\ boot.acct[a].created = 0

\* C27: the table holds at most one Device per device_id and every Device
\* belongs to one account, also when the device_id derived from a proxy is
\* in the table already and when two bootstraps create the same device_id
\* concurrently
C27_DeviceIdUnique ==
    boot.pc = "run" =>
        /\ \A i, j \in 1..Len(boot.devices) :
               boot.devices[i].device_id = boot.devices[j].device_id => i = j
        /\ \A i \in 1..Len(boot.devices) : boot.devices[i].account \in BootAccounts

\* both bootstraps looked up the same device_id and found none; one created
\* the row and the create of the other was refused
C27_Witness ==
    /\ boot.pc = "run"
    /\ \A a \in BootAccounts :
           /\ boot.acct[a].pc = "done"
           /\ boot.acct[a].proxies = <<"p1">>
           /\ ~boot.acct[a].device
    /\ \E a \in BootAccounts : boot.acct[a].created = 0
    /\ Len(boot.devices) = 1

\* the value a path leads to in a context: each segment names a key of a
\* map and, with an index, an entry of the sequence found there; "missing"
\* when a key is absent, the value is no map or the index is out of range
RECURSIVE Follow(_, _)
Follow(cur, path) ==
    IF path = <<>> THEN cur
    ELSE IF cur.t # "dict" \/ path[1].name \notin DOMAIN cur.v
    THEN [t |-> "missing", v |-> <<>>]
    ELSE LET found == cur.v[path[1].name]
         IN  IF path[1].idx < 0 THEN Follow(found, Tail(path))
             ELSE IF found.t # "list" \/ path[1].idx >= Len(found.v)
             THEN [t |-> "missing", v |-> <<>>]
             ELSE Follow(found.v[path[1].idx + 1], Tail(path))

\* the template with every placeholder replaced by the stringified value
\* its path leads to, and by nothing where the path leads to no value
RECURSIVE Resolved(_, _)
Resolved(pieces, context) ==
    IF pieces = <<>> THEN <<>>
    ELSE (IF pieces[1].kind = "text" THEN pieces[1].s
          ELSE LET value == Follow(context, pieces[1].path)
               IN  IF value.t = "missing" THEN <<>> ELSE str(value))
         \o Resolved(Tail(pieces), context)

\* every placeholder of the template has a path that leads to a value
AllResolve ==
    \A k \in 1..Len(task.pieces) :
        task.pieces[k].kind = "placeholder" =>
            Follow(task.context, task.pieces[k].path).t # "missing"

\* C22: a template whose placeholders all resolve becomes the same text
\* with every {{path}} replaced by the stringified value at the path, an
\* indexed segment subscripting a sequence; the text outside is unchanged
C22_PlaceholdersReplaced ==
    (task.op = "resolve" /\ task.result.t # "pending" /\ AllResolve) =>
        /\ task.result.t = "str"
        /\ task.result.v = Resolved(task.pieces, task.context)

\* "go to {{vars.url}}" has become "go to http://x"
C22_Witness ==
    /\ task.op = "resolve"
    /\ task.result.t = "str"
    /\ task.obj = <<"g", "o", " ", "t", "o", " ", "{", "{", "v", "a", "r", "s", ".",
                    "u", "r", "l", "}", "}">>
    /\ task.result.v = <<"g", "o", " ", "t", "o", " ", "h", "t", "t", "p", ":", "/", "/", "x">>

\* C23: every placeholder whose path does not resolve is replaced by the
\* empty string and the resolution does not fail
C23_UnresolvedBecomesEmpty ==
    (task.op = "resolve" /\ task.result.t # "pending") =>
        /\ task.result.t = "str"
        /\ task.result.v = Resolved(task.pieces, task.context)

\* a dict as the map from its keys to its values, nested dicts likewise:
\* two dicts are structurally equal when their maps are equal
RECURSIVE AsMap(_)
AsMap(value) ==
    IF value.t # "dict" THEN value.v
    ELSE LET keys == {value.v[i][1] : i \in 1..Len(value.v)}
         IN  [k \in keys |->
                 AsMap(value.v[CHOOSE i \in 1..Len(value.v) : value.v[i][1] = k][2])]

\* the records of a list that are structurally equal to no earlier one
FirstOfEach(arr) ==
    LET RECURSIVE from(_)
        from(i) ==
            IF i > Len(arr) THEN <<>>
            ELSE (IF \E j \in 1..(i - 1) : AsMap(arr[j]) = AsMap(arr[i])
                  THEN <<>> ELSE <<arr[i]>>) \o from(i + 1)
    IN  from(1)

\* C24: the result of an OBJECTS extraction is the list of the first
\* occurrences of the structurally distinct records, in their order: no two
\* of its records are structurally equal whatever the order of their keys,
\* none is lost, and deduplicating the result again changes nothing
C24_DeduplicatedByStructure ==
    (task.op = "extract_field" /\ task.result.t # "pending") =>
        /\ task.result.v = FirstOfEach(task.arr)
        /\ \A i, j \in 1..Len(task.result.v) :
               AsMap(task.result.v[i]) = AsMap(task.result.v[j]) => i = j
        /\ \A i \in 1..Len(task.arr) :
               \E j \in 1..Len(task.result.v) :
                   AsMap(task.result.v[j]) = AsMap(task.arr[i])
        /\ task.again = task.result.v

\* three structurally identical records, one with its keys in the other
\* order, have given one record, the first
C24_Witness ==
    /\ task.op = "extract_field"
    /\ Len(task.arr) = 3
    /\ \A i \in 1..3 : AsMap(task.arr[i]) = AsMap(task.arr[1])
    /\ \E i \in 1..3 : task.arr[i] # task.arr[1]
    /\ task.result.t = "list"
    /\ task.result.v = <<task.arr[1]>>

\* the extraction of the task fails or has no HTML to work on
ExtractionFails ==
    \/ task.target_url_html = "None"
    \/ run_yaml_rules_on_html(task.target_url_html, task.task_yaml_rules,
                              task.context, task.arr).t = "raised"

\* C25: build_task_json_data lets no extraction error out: without HTML and
\* on every exception of the extraction its result is the empty shape
\* (title, createdAt and question empty, answers an empty list) with the
\* metrics block
C25_FallbackOnError ==
    task.op = "build" =>
        \A k \in 1..Len(task.payloads) :
            /\ ~task.payloads[k].raised
            /\ task.payloads[k].perfMetrics \in 1..MaxMetrics
            /\ task.payloads[k].metadata = task.payloads[k].perfMetrics
            /\ ExtractionFails =>
                   task.payloads[k].fields =
                       [title |-> <<>>, createdAt |-> <<>>, question |-> <<>>,
                        answers |-> <<>>]

\* a payload has been built for a page whose rule document raised while its
\* placeholders were resolved
C25_Witness ==
    /\ task.op = "build"
    /\ task.target_url_html = "page"
    /\ task.task_yaml_rules.kind = "steps"
    /\ resolve_placeholders(task.task_yaml_rules.obj, task.context).t = "raised"
    /\ Len(task.payloads) > 0

Stepped(u) == CopiesIn(u, tasks') < CopiesIn(u, tasks)

\* a unit for the same device at position pc comes into being in the step
Appears(u, pc) ==
    \E p, t \in BOOLEAN :
        CopiesIn(Unit(u.dev, pc, p, t), tasks') > CopiesIn(Unit(u.dev, pc, p, t), tasks)

PingDue(device) ==
    device.next_ping_at = None \/ verify_sleep(device.next_ping_at)

TaskDue(device) ==
    device.next_task_request_at = None \/ verify_sleep(device.next_task_request_at)

\* C28: within one device unit the task request is sent only after the
\* unit's ping: a unit comes to its task request either from its ping, which
\* has returned and whose step has written next_ping_at, or straight from
\* the start when the ping was not due; a unit for which both are due goes
\* to the ping first, and no unit goes from its task request to a ping
C28_PingBeforeTask ==
    [][\A u \in Units :
          Stepped(u) =>
              /\ (u.pc = "queued" /\ PingDue(prepared_devices[u.dev])) =>
                     ~Appears(u, "task")
              /\ (u.pc = "ping" /\ Appears(u, "task")) =>
                     /\ u.task
                     /\ prepared_devices'[u.dev].next_ping_at =
                            get_sleep_until(PING_INTERVAL)
                     /\ prepared_devices'[u.dev].next_task_request_at =
                            prepared_devices[u.dev].next_task_request_at
              /\ u.pc \in {"task", "cleanup"} => ~Appears(u, "ping")]_vars

\* a unit for which both were due is at its task request: its ping has
\* returned and next_ping_at has been written
C28_Witness ==
    \E u \in Units :
        /\ u.pc = "task"
        /\ u.ping
        /\ prepared_devices[u.dev].next_ping_at = get_sleep_until(PING_INTERVAL)

\* C29: the two marks are set independently: a step of a unit changes
\* next_ping_at only when the unit is at its ping and next_task_request_at
\* only when it is at its task request, and changes no other device; a unit
\* that is only ping-eligible never sends a task request, a unit that is
\* only task-eligible never sends a ping, and a unit eligible for neither
\* ends at its start with no remote call and no mark changed
C29_MarksIndependent ==
    [][\A u \in Units :
          (Stepped(u) /\ loop_pc' = loop_pc) =>
              LET device == prepared_devices[u.dev]
                  after == prepared_devices'[u.dev]
              IN  /\ \A s \in 1..Len(prepared_devices) :
                        s # u.dev => prepared_devices'[s] = prepared_devices[s]
                  /\ u.pc # "ping" => after.next_ping_at = device.next_ping_at
                  /\ u.pc # "task" =>
                        after.next_task_request_at = device.next_task_request_at
                  /\ (u.pc = "queued" /\ ~TaskDue(device)) => ~Appears(u, "task")
                  /\ (u.pc = "ping" /\ ~u.task) => ~Appears(u, "task")
                  /\ (u.pc = "queued" /\ ~PingDue(device)) => ~Appears(u, "ping")
                  /\ (u.pc = "task" /\ ~u.ping) => ~Appears(u, "ping")
                  /\ (u.pc = "queued" /\ ~PingDue(device) /\ ~TaskDue(device)) =>
                        /\ ended' # NoEnd
                        /\ ended'.how = "skipped"
                        /\ prepared_devices' = prepared_devices]_vars

\* a unit that was only task-eligible has returned: next_task_request_at is
\* written and next_ping_at is a mark it has not written
C29_Witness ==
    /\ ended # NoEnd
    /\ ended.how = "returned"
    /\ ~ended.ping
    /\ prepared_devices[ended.dev].next_task_request_at =
           get_sleep_until(TASK_INTERVAL)
    /\ prepared_devices[ended.dev].next_ping_at # get_sleep_until(PING_INTERVAL)

\* a unit that was eligible for neither operation has ended at its start
C29_SkippedWitness ==
    /\ ended # NoEnd
    /\ ended.how = "skipped"

\* C30 as stated: after a unit that has returned both marks are strictly in
\* the future and the device is not ready
C30_CooldownAfterUnit ==
    (ended # NoEnd /\ ended.how = "returned") =>
        LET device == prepared_devices[ended.dev]
        IN  /\ ~PingDue(device)
            /\ ~TaskDue(device)
            /\ ~IsReadyDevice(device)

\* C30, amended: the return of a due ping sets next_ping_at to 2 minutes and
\* the return of a due task request sets next_task_request_at to 1 minute
\* after that return, a time strictly in the future then; when the unit has
\* returned both marks are set and the device is ready exactly when one of
\* them has elapsed, so it is in no ready set before the earlier mark has
\* elapsed
C30_MarksAfterDueOperations ==
    [][\A u \in Units :
          (Stepped(u) /\ loop_pc' = loop_pc) =>
              LET after == prepared_devices'[u.dev]
              IN  /\ (u.pc = "ping" /\ (Appears(u, "task") \/ Appears(u, "cleanup"))) =>
                        /\ after.next_ping_at = <<now + PING_INTERVAL>>
                        /\ ~PingDue(after)
                  /\ (u.pc = "task" /\ Appears(u, "cleanup")) =>
                        /\ after.next_task_request_at = <<now + TASK_INTERVAL>>
                        /\ ~TaskDue(after)
                  /\ (u.pc = "cleanup" /\ ended' # NoEnd /\ ended'.how = "returned") =>
                        /\ after.next_ping_at # None
                        /\ after.next_task_request_at # None
                        /\ IsReadyDevice(after) <=> (PingDue(after) \/ TaskDue(after))]_vars

\* a unit for which the ping was due has returned and the device is in its
\* cooldown: both marks are in the future and the device is not ready
C30_Witness ==
    /\ ended # NoEnd
    /\ ended.how = "returned"
    /\ ended.ping
    /\ ~PingDue(prepared_devices[ended.dev])
    /\ ~TaskDue(prepared_devices[ended.dev])
    /\ ~IsReadyDevice(prepared_devices[ended.dev])

(***************************************************************************)
(* The batch of a tick                                                     *)
(***************************************************************************)
\* the positions of prepared_devices for which the step creates a unit
Launched ==
    {s \in 1..Len(prepared_devices) :
        CopiesIn(Unit(s, "queued", FALSE, FALSE), tasks') >
            CopiesIn(Unit(s, "queued", FALSE, FALSE), tasks)}

\* C31: a tick launches at most max_devices_per_batch units, and every
\* device it launches was ready and its id was not in the in-flight set in
\* the state the tick computed its ready list from
C31_BatchWithinLimit ==
    [][/\ Cardinality(Launched) <= batch_limit
       /\ BagCardinality(tasks') - BagCardinality(tasks) <= batch_limit
       /\ \A s \in Launched :
              /\ IsReadyDevice(prepared_devices[s])
              /\ prepared_devices[s].device_id \notin devices_in_progress]_vars

\* a tick has launched as many units as the limit allows although more
\* devices than that are ready
C31_Witness ==
    /\ batch_limit < Len(prepared_devices)
    /\ \A s \in 1..Len(prepared_devices) : IsReadyDevice(prepared_devices[s])
    /\ BagCardinality(tasks) = batch_limit
    /\ \A u \in Units : u.pc = "queued"

\* the device at position s is ready and not in flight, no unit exists for
\* it, and the loop is running
Waiting(s) ==
    /\ loop_pc = "loop"
    /\ s <= Len(prepared_devices)
    /\ IsReadyDevice(prepared_devices[s])
    /\ prepared_devices[s].device_id \notin devices_in_progress
    /\ \A u \in Units : u.dev # s

\* C39: no starvation: a prepared device does not stay ready and out of
\* flight for ever without being launched, whatever the limit of the batch
\* is and whatever the other devices do, given that every unit ends
C39_NoStarvation ==
    \A s \in 1..NumSlots : ~<>[]Waiting(s)

(***************************************************************************)
(* The rotation of a device's proxy, and the business failures of farming  *)
(***************************************************************************)
\* C32: when a farming attempt has failed with a transport error, the
\* rotation is enabled, attempts remain and the pool has a proxy, the proxy
\* assigned to the device is released into the pool, the proxy at the front
\* of the pool is saved as the device's proxy, and the next attempt uses it
C32_RotationReplacesDeviceProxy ==
    [][(/\ farm.pc = "update_proxy"
        /\ farm.proxy_rotation_enabled
        /\ farm.outcome = "exception"
        /\ Len(pool.proxies) > 0
        /\ farm'.pc = "attempt")
       => /\ Truthy(farm.device_proxy) => Contains(pool'.proxies, farm.device_proxy)
          /\ farm'.device_proxy = Head(pool.proxies)
          /\ ~Contains(pool'.proxies, farm'.device_proxy)]_vars

\* C33: a business failure of a farming attempt (an APIError, or another
\* exception whose message tells of invalid credentials or an unauthorized
\* access) ends the operation for the cycle: process_farm has returned, with
\* no rotation and no further attempt
C33_BusinessFailureSkipsCycle ==
    (farm.pc # "none" /\ farm.outcome \in {"api_error", "unauthorized"}) =>
        farm.pc = "returned"

(***************************************************************************)
(* The shape of the proxy partitions                                       *)
(***************************************************************************)
\* C34 as stated: the proxy at list position j (from 0) is the entry j div P
\* of the partition of worker j mod P, and the first M mod P workers hold
\* M div P + 1 proxies, the others M div P
C34_RoundRobin ==
    dispatch.pc \in {"spawn", "monitor"} =>
        LET proxies == dispatch.in.proxies
            P == dispatch.process_count
            M == Len(proxies)
        IN  /\ \A i \in 0..(P - 1) :
                   Len(dispatch.distributed_proxies[i + 1]) =
                       (M \div P) + (IF i < M % P THEN 1 ELSE 0)
            /\ \A j \in 0..(M - 1) :
                   /\ (j \div P) + 1 <= Len(dispatch.distributed_proxies[(j % P) + 1])
                   /\ dispatch.distributed_proxies[(j % P) + 1][(j \div P) + 1] =
                          proxies[j + 1]

\* C34, amended: the proxies are dealt out in contiguous blocks in list
\* order: worker i holds the M div P + (1 if i < M mod P) proxies that
\* follow those of the workers before it, so exactly the first M mod P
\* workers hold one proxy more than the others
C34_ContiguousBlocks ==
    dispatch.pc \in {"spawn", "monitor"} =>
        LET proxies == dispatch.in.proxies
            P == dispatch.process_count
            M == Len(proxies)
            first(i) == i * (M \div P) + Min(i, M % P)
        IN  \A i \in 0..(P - 1) :
                LET part == dispatch.distributed_proxies[i + 1]
                IN  /\ Len(part) = (M \div P) + (IF i < M % P THEN 1 ELSE 0)
                    /\ \A k \in 1..Len(part) : part[k] = proxies[first(i) + k]

\* proxies have been dealt out to several workers with a remainder, and the
\* second proxy of the list is with the first worker
C34_Witness ==
    /\ dispatch.pc = "monitor"
    /\ dispatch.process_count >= 2
    /\ Len(dispatch.in.proxies) % dispatch.process_count # 0
    /\ Len(dispatch.in.proxies) > dispatch.process_count
    /\ dispatch.in.proxies[1] # dispatch.in.proxies[2]
    /\ dispatch.distributed_proxies[1][2] = dispatch.in.proxies[2]

\* C35 as stated: after bootstrap, for every configured range [min, max],
\* both marks of every prepared device are the bootstrap time plus one delay
\* of the range
C35_MarksSetForEveryRange ==
    (boot.pc = "prepared" /\ boot.delay_min <= boot.delay_max) =>
        \A k \in 1..Len(boot.prepared) :
            \E delay \in boot.delay_min..boot.delay_max :
                /\ boot.prepared[k].next_ping_at = get_sleep_until(delay)
                /\ boot.prepared[k].next_task_request_at = get_sleep_until(delay)

\* C35: after bootstrap with delay_max > 0 and delay_min >= 0, both marks of
\* every prepared device are the bootstrap time plus one delay of
\* [delay_min, delay_max], so none is ready before delay_min has passed; with
\* delay_max <= 0 the marks are the ones read from the table
C35_MarksSetWhenDelayOn ==
    boot.pc = "prepared" =>
        IF boot.delay_max > 0 /\ boot.delay_min >= 0
        THEN \A k \in 1..Len(boot.prepared) :
                 \E delay \in boot.delay_min..boot.delay_max :
                     /\ boot.prepared[k].next_ping_at = get_sleep_until(delay)
                     /\ boot.prepared[k].next_task_request_at = get_sleep_until(delay)
                     /\ boot.prepared[k].next_ping_at[1] >= now + boot.delay_min
        ELSE boot.prepared = boot.acct[1].result \o boot.acct[2].result

\* two devices were prepared with different delays of the range, one of them
\* read from the table with marks of an earlier run and one created by this
\* bootstrap
C35_Witness ==
    /\ boot.pc = "prepared"
    /\ boot.delay_min < boot.delay_max
    /\ \E j, k \in 1..Len(boot.prepared) :
           /\ boot.prepared[j].next_ping_at # boot.prepared[k].next_ping_at
           /\ boot.acct[boot.prepared[j].account].result[1].next_ping_at = <<0>>
           /\ boot.acct[boot.prepared[k].account].result[1].next_ping_at = None

\* C38: the list of prepared devices holds every device id at most once
C38_PreparedIdsUnique ==
    boot.pc = "prepared" =>
        \A i, j \in 1..Len(boot.prepared) :
            boot.prepared[i].device_id = boot.prepared[j].device_id => i = j

\* C36: the steps run in the order of the document, and step k is resolved
\* with the vars and, under every name, the result of the last offscreen
\* step before k that named it as output: not its own result, not the
\* result of a later step, nothing for a step of another handler
C36_ContextOfStep ==
    task.op = "steps" =>
        /\ Len(task.seen) = task.k - 1
        /\ \A k \in 1..Len(task.seen) :
               LET named(n) == {j \in 1..(k - 1) :
                                    /\ task.steps[j].use = "offscreen"
                                    /\ task.steps[j].output = n}
                   names == {n \in {<<"a">>, <<"b">>} : named(n) # {}}
                   last(n) == CHOOSE j \in named(n) : \A i \in named(n) : i <= j
                   outputs == [n \in names |-> StepResult(last(n))]
               IN  /\ task.seen[k].v[<<"v", "a", "r", "s">>] = task.vars_data
                   /\ DOMAIN task.seen[k].v[<<"s", "t", "e", "p", "s">>].v = names
                   /\ \A n \in names :
                          task.seen[k].v[<<"s", "t", "e", "p", "s">>].v[n] = outputs[n]
                   /\ task.resolved[k] =
                          resolve_placeholders(task.steps[k].obj,
                                               PlaceholderContext(task.vars_data, outputs))

\* a document of three steps has run: step 1 stored its result as a, step 2
\* of another handler named a too, and step 3, which names b, was resolved
\* with the title of step 1 for steps.a and with nothing for steps.b
C36_Witness ==
    /\ task.op = "steps"
    /\ task.k = 4
    /\ task.steps[1].use = "offscreen" /\ task.steps[1].output = <<"a">>
    /\ task.steps[2].use = "other" /\ task.steps[2].output = <<"a">>
    /\ task.steps[3].use = "offscreen" /\ task.steps[3].output = <<"b">>
    /\ task.steps[2].obj = task.steps[3].obj
    /\ task.resolved[2] = PyStr(<<"1">>)
    /\ task.resolved[3] = PyStr(<<"1">>)
    /\ DOMAIN task.step_outputs = {<<"a">>, <<"b">>}

(***************************************************************************)
(* The pool and the proxies assigned to devices                            *)
(***************************************************************************)
\* C37: no attempt, rotation or cleanup of a unit puts the proxy saved on
\* the device into the pool, or a proxy into the pool twice: when the pool
\* holds distinct proxies, and neither the device's nor its account's,
\* before the step, it holds distinct proxies and not the device's after it
C37_AssignedProxyNotInPool ==
    [][(/\ farm.pc # "none"
        /\ ~Contains(pool.proxies, farm.device_proxy)
        /\ ~Contains(pool.proxies, farm.account_proxy)
        /\ \A i, j \in 1..Len(pool.proxies) :
               pool.proxies[i] = pool.proxies[j] => i = j)
       => /\ ~Contains(pool'.proxies, farm'.device_proxy)
          /\ \A i, j \in 1..Len(pool'.proxies) :
                 pool'.proxies[i] = pool'.proxies[j] => i = j]_vars

\* C40: as long as no remote call has failed, every task that request_task
\* has returned has been submitted once when process_task ends, whatever
\* outputs its rules name: no attempt ends, and no further request is
\* made, with a received task that was not submitted
C40_OneSubmissionPerTask ==
    (task.op = "process_task" /\ ~task.remote_failed) =>
        Len(task.submitted) = task.received

====
